---- MODULE Spec2Model ----
(***************************************************************************)
(* Model of the Product-X query interpretation and execution pipeline:     *)
(* the rule-based planner (backend/query_planner.py), the keyword intent   *)
(* detector (intent_detector.py), the hybrid pipeline                      *)
(* (backend/hybrid_pipeline.py), the JSON executor                         *)
(* (backend/query_executor.py), the cached analytics engine                *)
(* (query_engine.py), shipment enrichment (data_enrichment.py) and the     *)
(* LLM phrasing step (backend/copilot_backend.py).                         *)
(*                                                                         *)
(* Text is modelled as TLA+ strings; Python's substring test, str.lower,   *)
(* str.strip and the regular expressions of the source are computed on     *)
(* the characters.  Timestamps are whole days.                             *)
(***************************************************************************)
EXTENDS Integers, Sequences, FiniteSets, TLC

VARIABLES
    question,    \* the raw user question handed to the classifier
    plan,        \* QueryPlanner.plan_query's result for it, once computed
    detected,    \* intent_detector.detect_intent's result for it, once computed
    out,         \* HybridQueryPipeline.execute's outcome for it, once computed
    self_df,     \* the table a QueryExecutor / HybridQueryPipeline was built on
    the_filters, \* the filters of the query instruction
    count_out,   \* QueryExecutor.execute's result for intent COUNT
    filter_out,  \* QueryExecutor.execute's result for intent FILTER
    metrics_out, \* QueryExecutor.execute's result for intent METRICS
    pipe_out,    \* HybridQueryPipeline._execute_query_plan's result for METRICS
    details_out, \* QueryExecutor.execute's result for intent DETAILS
    shipment_row,     \* the raw row handed to enrich_shipment
    shipment_summary, \* the ShipmentSummary enrich_shipment made of it, and when
    risk_rendered,    \* the risk level each rendering path shows for its risk_score
    rank_out,    \* the latest ranking call: who served it, its request, its result
    parsed,      \* QueryParser.parse's result for the question, once computed
    csv_data,    \* query_engine._csv_data: the cached frame, once loaded
    now,         \* datetime.now(), in whole days
    first_details, \* the first get_shipment_details call: id, time, result
    engine_out,  \* the latest query_engine handler call, in the same form
    module_cache, \* _csv_data of each module that keeps one
    file_state,  \* the shipment file on disk: ok, missing or unreadable
    load_pc,     \* where each caller stands in load_csv / load_data
    load_got,    \* what load_csv / load_data returned to each caller
    parses,      \* how many times the process has read and parsed the file
    config_manager, \* the provider configuration: the two API keys and use_grok
    session_messages, \* ConversationSession.messages of the one session
    insight,     \* the latest generate_insights call: its inputs and what it returned
    sessions,    \* copilot_backend.sessions: the ConversationSession of each session id
    chat_reply   \* the latest session request: its endpoint, its session id, its answer

None == "None"

----------------------------------------------------------------------------
(* Text primitives *)

Letters == {"a","b","c","d","e","f","g","h","i","j","k","l","m",
            "n","o","p","q","r","s","t","u","v","w","x","y","z"}
Digits == {"0","1","2","3","4","5","6","7","8","9"}
Space == " "

\* str.lower() of one character
LowerChar(c) ==
    CASE c = "A" -> "a" [] c = "B" -> "b" [] c = "C" -> "c" [] c = "D" -> "d"
      [] c = "E" -> "e" [] c = "F" -> "f" [] c = "G" -> "g" [] c = "H" -> "h"
      [] c = "I" -> "i" [] c = "J" -> "j" [] c = "K" -> "k" [] c = "L" -> "l"
      [] c = "M" -> "m" [] c = "N" -> "n" [] c = "O" -> "o" [] c = "P" -> "p"
      [] c = "Q" -> "q" [] c = "R" -> "r" [] c = "S" -> "s" [] c = "T" -> "t"
      [] c = "U" -> "u" [] c = "V" -> "v" [] c = "W" -> "w" [] c = "X" -> "x"
      [] c = "Y" -> "y" [] c = "Z" -> "z" [] OTHER -> c

\* str.upper() of one character
UpperChar(c) ==
    CASE c = "a" -> "A" [] c = "b" -> "B" [] c = "c" -> "C" [] c = "d" -> "D"
      [] c = "e" -> "E" [] c = "f" -> "F" [] c = "g" -> "G" [] c = "h" -> "H"
      [] c = "i" -> "I" [] c = "j" -> "J" [] c = "k" -> "K" [] c = "l" -> "L"
      [] c = "m" -> "M" [] c = "n" -> "N" [] c = "o" -> "O" [] c = "p" -> "P"
      [] c = "q" -> "Q" [] c = "r" -> "R" [] c = "s" -> "S" [] c = "t" -> "T"
      [] c = "u" -> "U" [] c = "v" -> "V" [] c = "w" -> "W" [] c = "x" -> "X"
      [] c = "y" -> "Y" [] c = "z" -> "Z" [] OTHER -> c

CharAt(t, i) == SubSeq(t, i, i)

RECURSIVE LowerFrom(_, _)
LowerFrom(t, i) == IF i > Len(t) THEN "" ELSE LowerChar(CharAt(t, i)) \o LowerFrom(t, i + 1)

RECURSIVE UpperFrom(_, _)
UpperFrom(t, i) == IF i > Len(t) THEN "" ELSE UpperChar(CharAt(t, i)) \o UpperFrom(t, i + 1)

\* str.lower() and str.upper()
Lower(t) == LowerFrom(t, 1)
Upper(t) == UpperFrom(t, 1)

\* str.strip(): leading and trailing whitespace removed
Strip(t) ==
    LET nonsp == {i \in 1..Len(t) : CharAt(t, i) # Space}
    IN IF nonsp = {} THEN ""
       ELSE SubSeq(t, CHOOSE i \in nonsp : \A j \in nonsp : i <= j,
                      CHOOSE i \in nonsp : \A j \in nonsp : i >= j)

\* p occurs in t at position i
MatchAt(t, i, p) == i >= 1 /\ i + Len(p) - 1 <= Len(t) /\ SubSeq(t, i, i + Len(p) - 1) = p

\* Python: p in t
Contains(t, p) == \E i \in 1..(Len(t) - Len(p) + 1) : MatchAt(t, i, p)

\* Python: any(word in text for word in words)
AnyIn(t, words) == \E w \in words : Contains(t, w)

\* the end of the maximal run of characters of class cls that starts at i
\* (i - 1 when the run is empty): a greedy  [cls]*
RECURSIVE RunEnd(_, _, _)
RunEnd(t, i, cls) ==
    IF i <= Len(t) /\ CharAt(t, i) \in cls THEN RunEnd(t, i + 1, cls) ELSE i - 1

\* the least element of a non-empty set of positions
MinOf(S) == CHOOSE i \in S : \A j \in S : i <= j

\* An optional value: <<>> is Python's "not computed yet", <<v>> holds v.
Nothing == <<>>
Some(v) == <<v>>

\* dict.get(k): the value under k, None when the key is absent
Get(d, k) == IF k \in DOMAIN d THEN d[k] ELSE None

\* int(s) for a string of decimal digits
DigitValue == [c \in Digits |->
    CASE c = "0" -> 0 [] c = "1" -> 1 [] c = "2" -> 2 [] c = "3" -> 3 [] c = "4" -> 4
      [] c = "5" -> 5 [] c = "6" -> 6 [] c = "7" -> 7 [] c = "8" -> 8 [] c = "9" -> 9]

RECURSIVE ParseInt(_, _)
ParseInt(s, acc) ==
    IF s = "" THEN acc
    ELSE ParseInt(SubSeq(s, 2, Len(s)), acc * 10 + DigitValue[CharAt(s, 1)])

----------------------------------------------------------------------------
(* backend/query_planner.py : QueryPlanner *)

VALID_OPERATIONS == {"COUNT", "LIST", "FILTER", "AGGREGATE_SUM", "DETAILS",
                     "METRICS", "UNIQUE_COUNT", "ANALYTICS"}

\* the character class [a-z0-9\-] of the location regular expressions
TokenClass == Letters \cup Digits \cup {"-"}

\* re.search(r'(shp-\d{7})', text): the positions where the pattern matches
ShipmentIdAt(t, i) ==
    /\ MatchAt(t, i, "shp-")
    /\ i + 10 <= Len(t)
    /\ \A k \in 4..10 : CharAt(t, i + k) \in Digits

extract_shipment_id(t) ==
    LET hits == {i \in 1..Len(t) : ShipmentIdAt(t, i)}
    IN IF hits = {} THEN None ELSE Upper(SubSeq(t, MinOf(hits), MinOf(hits) + 10))

\* the rules of _detect_operation, in the order the code tests them
detect_operation(t) ==
    IF AnyIn(t, {"problematic", "most delays", "worst", "best", "top", "bottom",
                 "analysis", "insights", "trending", "critical"}) THEN "ANALYTICS"
    ELSE IF Contains(t, "shp-") THEN "DETAILS"
    ELSE IF AnyIn(t, {"unique", "distinct", "different", "how many sku",
                      "how many routes", "count of unique"}) THEN "UNIQUE_COUNT"
    ELSE IF /\ AnyIn(t, {"rate", "percentage", "%", "performance", "metric",
                         "on-time", "on time", "ontime"})
            /\ AnyIn(t, {"rate", "percentage", "%", "performance", "metric"})
         THEN "METRICS"
    ELSE IF AnyIn(t, {"sum", "total units", "volume", "quantity total",
                      "total quantity"}) THEN "AGGREGATE_SUM"
    ELSE IF AnyIn(t, {"how many", "count", "total", "number of"}) THEN "COUNT"
    ELSE IF AnyIn(t, {"list", "show", "get", "display", "all shipments"}) THEN "LIST"
    ELSE IF AnyIn(t, {"filter", "where", "that are", "which are"}) THEN "FILTER"
    ELSE "LIST"

locations_map == [k \in {"lon", "lax", "sfo", "nyc", "fra", "ams", "shz", "bkk", "del",
                         "mum", "sin", "uk-lon", "us-lax", "in-del", "in-mum", "cn-shz",
                         "de-fra", "th-bkk", "sg-sin"} |->
    CASE k \in {"lon", "uk-lon"} -> "UK-LON"
      [] k \in {"lax", "us-lax"} -> "US-LAX"
      [] k = "sfo" -> "US-SFO"
      [] k = "nyc" -> "US-NYC"
      [] k \in {"fra", "de-fra"} -> "DE-FRA"
      [] k = "ams" -> "NL-AMS"
      [] k \in {"shz", "cn-shz"} -> "CN-SHZ"
      [] k \in {"bkk", "th-bkk"} -> "TH-BKK"
      [] k \in {"del", "in-del"} -> "IN-DEL"
      [] k \in {"mum", "in-mum"} -> "IN-MUM"
      [] k \in {"sin", "sg-sin"} -> "SG-SIN"]

valid_locations == {"US-LAX", "CN-SHZ", "TH-BKK", "UK-LON", "DE-FRA", "SG-SIN",
                    "IN-DEL", "IN-MUM"}

\* locations_map.get(code) accepted only when it is a valid location; else None
ResolveLocation(code) ==
    IF code \in DOMAIN locations_map /\ locations_map[code] \in valid_locations
    THEN locations_map[code] ELSE None

\* [a-z]{2}-[a-z]{3} matches at position i
CodeAt(t, i) ==
    /\ i + 5 <= Len(t)
    /\ CharAt(t, i) \in Letters /\ CharAt(t, i + 1) \in Letters
    /\ CharAt(t, i + 2) = "-"
    /\ \A k \in 3..5 : CharAt(t, i + k) \in Letters

\* re.findall(r'([a-z]{2}-[a-z]{3})', text): the non-overlapping matches, left to right
RECURSIVE FindAllCodes(_, _)
FindAllCodes(t, i) ==
    IF i + 5 > Len(t) THEN <<>>
    ELSE IF CodeAt(t, i) THEN <<SubSeq(t, i, i + 5)>> \o FindAllCodes(t, i + 6)
    ELSE FindAllCodes(t, i + 1)

\* the loop over the full-code matches: the first valid one is the destination,
\* the second the source
RECURSIVE AssignCodes(_, _, _)
AssignCodes(codes, k, res) ==
    IF k > Len(codes) THEN res
    ELSE LET mapped == ResolveLocation(codes[k])
         IN AssignCodes(codes, k + 1,
                IF mapped = None THEN res
                ELSE IF res.destination = None THEN [res EXCEPT !.destination = mapped]
                ELSE IF res.source = None THEN [res EXCEPT !.source = mapped]
                ELSE res)

\* kw\s+([a-z0-9\-]+) matches at position i; its group is then KwToken(t, i, kw)
KwTokenAt(t, i, kw) ==
    /\ MatchAt(t, i, kw)
    /\ RunEnd(t, i + Len(kw), {Space}) >= i + Len(kw)
    /\ RunEnd(t, RunEnd(t, i + Len(kw), {Space}) + 1, TokenClass)
          >= RunEnd(t, i + Len(kw), {Space}) + 1

KwTokenEnd(t, i, kw) == RunEnd(t, RunEnd(t, i + Len(kw), {Space}) + 1, TokenClass)

KwToken(t, i, kw) == SubSeq(t, RunEnd(t, i + Len(kw), {Space}) + 1, KwTokenEnd(t, i, kw))

\* re.search(kw\s+([a-z0-9\-]+), text): the positions where it matches
KwTokenHits(t, kw) == {i \in 1..Len(t) : KwTokenAt(t, i, kw)}

\* from\s+([a-z0-9\-]+)\s+to\s+([a-z0-9\-]+) matches at position i
FromToAt(t, i) ==
    /\ KwTokenAt(t, i, "from")
    /\ RunEnd(t, KwTokenEnd(t, i, "from") + 1, {Space}) >= KwTokenEnd(t, i, "from") + 1
    /\ KwTokenAt(t, RunEnd(t, KwTokenEnd(t, i, "from") + 1, {Space}) + 1, "to")

FromToHits(t) == {i \in 1..Len(t) : FromToAt(t, i)}

extract_locations(t) ==
    LET full == AssignCodes(FindAllCodes(t, 1), 1, [source |-> None, destination |-> None])
        ft == FromToHits(t)
        tos == KwTokenHits(t, "to")
        froms == KwTokenHits(t, "from")
    IN IF ft # {} THEN
           LET i == MinOf(ft)
               j == RunEnd(t, KwTokenEnd(t, i, "from") + 1, {Space}) + 1
               source_mapped == ResolveLocation(KwToken(t, i, "from"))
               dest_mapped == ResolveLocation(KwToken(t, j, "to"))
           IN [source |-> IF source_mapped # None THEN source_mapped ELSE full.source,
               destination |-> IF dest_mapped # None THEN dest_mapped ELSE full.destination]
       ELSE
           LET dest_mapped == IF tos # {} /\ full.destination = None
                              THEN ResolveLocation(KwToken(t, MinOf(tos), "to")) ELSE None
               source_mapped == IF froms # {} /\ full.source = None
                                THEN ResolveLocation(KwToken(t, MinOf(froms), "from")) ELSE None
           IN [source |-> IF source_mapped # None THEN source_mapped ELSE full.source,
               destination |-> IF dest_mapped # None THEN dest_mapped ELSE full.destination]

extract_status(t) ==
    IF AnyIn(t, {"arrived", "delivered"}) THEN "ARRIVED"
    ELSE IF AnyIn(t, {"in transit", "transit", "in-transit"}) THEN "IN_TRANSIT"
    ELSE IF AnyIn(t, {"delayed", "late", "delay"}) THEN "DELAYED"
    ELSE None

\* re.search(r'(sku-\d+)', text)
SkuAt(t, i) == MatchAt(t, i, "sku-") /\ RunEnd(t, i + 4, Digits) >= i + 4

extract_sku(t) ==
    LET hits == {i \in 1..Len(t) : SkuAt(t, i)}
    IN IF hits = {} THEN None
       ELSE Upper(SubSeq(t, MinOf(hits), RunEnd(t, MinOf(hits) + 4, Digits)))

\* re.search(r'(?:top|first|limit|get)\s+(\d+)', text): <<>> for None, <<n>> for n
LimitAt(t, i, kw) ==
    /\ MatchAt(t, i, kw)
    /\ RunEnd(t, i + Len(kw), {Space}) >= i + Len(kw)
    /\ RunEnd(t, RunEnd(t, i + Len(kw), {Space}) + 1, Digits)
          >= RunEnd(t, i + Len(kw), {Space}) + 1

extract_limit(t) ==
    LET kws == {"top", "first", "limit", "get"}
        hits == {i \in 1..Len(t) : \E kw \in kws : LimitAt(t, i, kw)}
    IN IF hits = {} THEN Nothing
       ELSE LET i == MinOf(hits)
                kw == CHOOSE k \in kws : LimitAt(t, i, k)
                a == RunEnd(t, i + Len(kw), {Space}) + 1
            IN Some(ParseInt(SubSeq(t, a, RunEnd(t, a, Digits)), 0))

extract_sort_field(t) ==
    IF Contains(t, "by date") \/ Contains(t, "by departure") THEN "departed_at"
    ELSE IF Contains(t, "by arrival") \/ Contains(t, "by arrived") THEN "arrived_at"
    ELSE IF Contains(t, "by quantity") \/ Contains(t, "by units") THEN "quantity"
    ELSE IF Contains(t, "by expected") THEN "expected_arrival"
    ELSE None

\* "a location was mentioned but none resolved" (plan_query, lines 48-54)
invalid_location(t, locations) ==
    /\ AnyIn(t, {"to ", "from "})
    /\ locations.destination = None
    /\ locations.source = None
    /\ (KwTokenHits(t, "to") # {} \/ KwTokenHits(t, "from") # {})

plan_query(user_question) ==
    LET question_lower == Strip(Lower(user_question))
        shipment_id == extract_shipment_id(question_lower)
        operation == detect_operation(question_lower)
        locations == extract_locations(question_lower)
        status == IF operation \notin {"METRICS", "DETAILS"}
                  THEN extract_status(question_lower) ELSE None
        raw == [shipment_id |-> shipment_id,
                source_location |-> locations.source,
                destination_location |-> locations.destination,
                status |-> status,
                sku |-> extract_sku(question_lower)]
    IN [operation |-> operation,
        filters |-> [k \in {f \in DOMAIN raw : raw[f] # None} |-> raw[k]],
        limit |-> extract_limit(question_lower),
        sort_by |-> extract_sort_field(question_lower),
        invalid_location_mentioned |-> invalid_location(question_lower, locations)]

----------------------------------------------------------------------------
(* The shipment table (dataset.py) *)

\* arrived_at of a shipment that has not arrived (None in dataset.py, NaN once read)
NaT == -1

\* status as dataset.py derives it from arrived_at
StatusOf(arrived_at) == IF arrived_at = NaT THEN "IN_TRANSIT" ELSE "ARRIVED"

\* the first n rows: DataFrame.head(n)
HeadRows(df, n) == SubSeq(df, 1, IF Len(df) < n THEN Len(df) ELSE n)

\* df[df[field] == value]
RECURSIVE FilterEq(_, _, _)
FilterEq(df, field, value) ==
    IF df = <<>> THEN <<>>
    ELSE (IF Head(df)[field] = value THEN <<Head(df)>> ELSE <<>>)
         \o FilterEq(Tail(df), field, value)

\* the values of a column in order of first appearance: Series.unique()
RECURSIVE UniqueOf(_, _)
UniqueOf(col, seen) ==
    IF col = <<>> THEN seen
    ELSE UniqueOf(Tail(col), IF \E k \in 1..Len(seen) : seen[k] = Head(col)
                             THEN seen ELSE Append(seen, Head(col)))

Column(df, field) == [k \in 1..Len(df) |-> df[k][field]]

RECURSIVE SumOf(_)
SumOf(col) == IF col = <<>> THEN 0 ELSE Head(col) + SumOf(Tail(col))

\* len(df[pred]) for the row predicates the metrics use; a comparison with a
\* missing arrived_at is False, as pandas evaluates it
ArrivedRows(df) == {k \in 1..Len(df) : df[k].status = "ARRIVED"}
OnTimeRows(df) == {k \in ArrivedRows(df) :
                      df[k].arrived_at # NaT /\ df[k].arrived_at <= df[k].expected_arrival}
\* a plausible slip: a shipment that arrives on the expected day counts as late
LateRowsInclusive(df) == {k \in ArrivedRows(df) :
                      df[k].arrived_at # NaT /\ df[k].arrived_at >= df[k].expected_arrival}

LateRows(df) == {k \in ArrivedRows(df) :
                      df[k].arrived_at # NaT /\ df[k].arrived_at > df[k].expected_arrival}

\* the indices of the n largest keys, largest first, the earlier one first on a tie
RECURSIVE NLargestIdx(_, _, _)
NLargestIdx(keys, n, taken) ==
    LET left == (1..Len(keys)) \ {taken[k] : k \in 1..Len(taken)}
    IN IF n = 0 \/ left = {} THEN taken
       ELSE NLargestIdx(keys, n - 1,
                Append(taken, MinOf({i \in left : \A j \in left : keys[j] <= keys[i]})))

\* the n rows with the largest key, keys[k] being the key of rows[k]:
\* DataFrame.nlargest(n, key), and
\* sort_values(key, ascending=False).head(n)
NLargest(rows, n, keys) ==
    LET idx == NLargestIdx(keys, n, <<>>)
    IN [k \in 1..Len(idx) |-> rows[idx[k]]]

\* round(num / den * 100, 2), in hundredths of a percent (6667 is 66.67);
\* an exact tie goes to the even neighbour, as Python's round does
Round2Pct(num, den) ==
    LET x == num * 10000
        q == x \div den
        r == x % den
    IN IF 2 * r < den THEN q
       ELSE IF 2 * r > den THEN q + 1
       ELSE IF q % 2 = 0 THEN q ELSE q + 1

----------------------------------------------------------------------------
(* backend/hybrid_pipeline.py : HybridQueryPipeline *)

CountPreview == 10
ListPreview == 20
AnalyticsGroups == 5

\* what a Python function that falls off its end returns
PyNone == [py_none |-> TRUE]

\* the five filter steps of _execute_query_plan, in the code's order
Truthy(v) == v # None /\ v # ""

ApplyIf(df, filters, field) ==
    IF Truthy(Get(filters, field)) THEN FilterEq(df, field, filters[field]) ELSE df

pipeline_filter(df, filters) ==
    ApplyIf(ApplyIf(ApplyIf(ApplyIf(ApplyIf(df, filters, "destination_location"),
        filters, "source_location"), filters, "shipment_id"), filters, "status"),
        filters, "sku")

RouteOf(row) == row.source_location \o " to " \o row.destination_location

\* the per-SKU loop of the ANALYTICS branch
sku_stats(df) ==
    LET skus == HeadRows(UniqueOf(Column(df, "sku"), <<>>), AnalyticsGroups)
        stat(sku) == LET sku_df == FilterEq(df, "sku", sku)
                     IN [sku |-> sku,
                         on_time_rate |-> Round2Pct(Cardinality(OnTimeRows(sku_df)),
                                                    Cardinality(ArrivedRows(sku_df))),
                         total_shipments |-> Len(sku_df)]
        kept == SelectSeq(skus, LAMBDA sku : Cardinality(ArrivedRows(FilterEq(df, "sku", sku))) > 0)
    IN [k \in 1..Len(kept) |-> stat(kept[k])]

\* the per-route loop of the ANALYTICS branch
route_stats(df) ==
    LET routed == [k \in 1..Len(df) |-> [route |-> RouteOf(df[k]), status |-> df[k].status,
                                         arrived_at |-> df[k].arrived_at,
                                         expected_arrival |-> df[k].expected_arrival]]
        routes == HeadRows(UniqueOf(Column(routed, "route"), <<>>), AnalyticsGroups)
        stat(route) == LET route_df == FilterEq(routed, "route", route)
                       IN [route |-> route,
                           delay_rate |-> Round2Pct(Cardinality(LateRows(route_df)),
                                                    Cardinality(ArrivedRows(route_df))),
                           delayed_count |-> Cardinality(LateRows(route_df)),
                           total_arrived |-> Cardinality(ArrivedRows(route_df))]
        kept == SelectSeq(routes,
                    LAMBDA route : Cardinality(ArrivedRows(FilterEq(routed, "route", route))) > 0)
    IN [k \in 1..Len(kept) |-> stat(kept[k])]

\* the METRICS branch (lines 192-219)
pipeline_metrics(result_df) ==
    LET arrived_shipments == Cardinality(ArrivedRows(result_df))
        on_time == Cardinality(OnTimeRows(result_df))
        delayed == Cardinality(LateRows(result_df))
    IN [count |-> Len(result_df),
        operation |-> "METRICS",
        total_shipments |-> Len(result_df),
        arrived_shipments |-> arrived_shipments,
        in_transit_shipments |-> Cardinality({k \in 1..Len(result_df) :
                                                 result_df[k].status = "IN_TRANSIT"}),
        on_time_shipments |-> on_time,
        delayed_shipments |-> delayed,
        on_time_rate |-> IF arrived_shipments > 0 THEN Round2Pct(on_time, arrived_shipments) ELSE 0,
        delay_rate |-> IF arrived_shipments > 0 THEN Round2Pct(delayed, arrived_shipments) ELSE 0,
        records |-> <<>>]

\* _execute_query_plan: the result dictionary, or PyNone when no branch returns
execute_query_plan(df, query_plan) ==
    LET operation == query_plan.operation
        result_df == pipeline_filter(df, query_plan.filters)
    IN CASE operation = "COUNT" ->
              [count |-> Len(result_df), operation |-> "COUNT",
               records |-> HeadRows(result_df, CountPreview)]
         [] operation = "DETAILS" ->
              IF Len(result_df) = 0 THEN [count |-> 0, error |-> "Shipment not found"]
              ELSE [count |-> 1, operation |-> "DETAILS", records |-> <<result_df[1]>>]
         [] operation = "LIST" ->
              [count |-> Len(result_df), operation |-> "LIST",
               records |-> HeadRows(result_df, ListPreview)]
         [] operation = "AGGREGATE_SUM" ->
              [count |-> Len(result_df), operation |-> "AGGREGATE_SUM",
               total_units |-> SumOf(Column(result_df, "quantity")),
               total_shipments |-> Len(result_df), records |-> <<>>]
         [] operation = "ANALYTICS" ->
              [count |-> Len(result_df), operation |-> "ANALYTICS",
               sku_stats |-> sku_stats(result_df), route_stats |-> route_stats(result_df),
               total_records |-> Len(result_df), records |-> <<>>]
         [] operation = "METRICS" -> pipeline_metrics(result_df)
         [] operation = "UNIQUE_COUNT" ->
              [count |-> Len(result_df), operation |-> "UNIQUE_COUNT",
               unique_skus |-> Len(UniqueOf(Column(result_df, "sku"), <<>>)),
               unique_routes |-> Cardinality({<<result_df[k].source_location,
                                                result_df[k].destination_location>> :
                                              k \in 1..Len(result_df)}),
               total_records |-> Len(result_df), records |-> <<>>]
         [] OTHER -> PyNone

\* a plausible slip: the empty result is not rejected
validate_results_accepts_empty(query_plan, result_data) ==
    /\ query_plan.operation = Get(result_data, "operation")
    /\ ("records" \in DOMAIN result_data => Len(result_data.records) <= result_data.count)

\* _validate_results: is_valid
validate_results(query_plan, result_data) ==
    /\ result_data.count # 0
    /\ query_plan.operation = Get(result_data, "operation")
    /\ ("records" \in DOMAIN result_data => Len(result_data.records) <= result_data.count)

NoDataText == "No data found."

\* _format_response: the template chosen and the values put into it
format_response(query_plan, result_data) ==
    LET operation == query_plan.operation
        count == result_data.count
        filters == query_plan.filters
        location == IF Truthy(Get(filters, "destination_location"))
                    THEN filters["destination_location"] ELSE Get(filters, "source_location")
        nodata == [text |-> NoDataText, args |-> <<>>]
    IN CASE operation = "COUNT" ->
              IF Truthy(location)
              THEN [text |-> "There are {count} shipments to {location}.", args |-> <<count, location>>]
              ELSE [text |-> "Total count: {count} records.", args |-> <<count>>]
         [] operation = "DETAILS" ->
              IF count = 0 THEN nodata
              ELSE IF result_data.records[1].status = "IN_TRANSIT"
              THEN [text |-> "Shipment {id}: ... Departed: {d}, Expected arrival: {e}.",
                    args |-> <<result_data.records[1]>>]
              ELSE [text |-> "Shipment {id}: ... Departed: {d}, Expected: {e}, Arrived: {a}.",
                    args |-> <<result_data.records[1]>>]
         [] operation = "LIST" ->
              IF count = 0 THEN nodata
              ELSE [text |-> "Found {count} shipments.", args |-> <<count>>]
         [] operation = "AGGREGATE_SUM" ->
              IF result_data.total_shipments = 0 THEN nodata
              ELSE [text |-> "Total units: {units} across {shipments} shipments.",
                    args |-> <<result_data.total_units, result_data.total_shipments>>]
         [] operation = "METRICS" ->
              IF count = 0 THEN nodata
              ELSE [text |-> "Shipment metrics{location}: On-time rate: {r}%, Delay rate: {d}%, Total shipments: {n}.",
                    args |-> <<location, result_data.on_time_rate, result_data.delay_rate,
                               result_data.total_shipments>>]
         [] operation = "UNIQUE_COUNT" ->
              IF count = 0 THEN nodata
              ELSE [text |-> "Dataset contains {skus} unique SKUs and {routes} unique delivery routes.",
                    args |-> <<result_data.unique_skus, result_data.unique_routes>>]
         [] operation = "ANALYTICS" ->
              IF count = 0 THEN nodata
              ELSE [text |-> "Analysis Results: ...",
                    args |-> <<result_data.sku_stats, result_data.route_stats>>]
         [] OTHER -> nodata

\* HybridQueryPipeline.execute: the dictionary it returns, or the exception it lets
\* escape.  executed records whether _execute_query_plan ran on the table.
pipeline_execute(df, user_query) ==
    LET query_plan == plan_query(user_query)
        result_data == execute_query_plan(df, query_plan)
        nodata(ran) == [raised |-> FALSE,
                        response |-> [text |-> NoDataText, args |-> <<>>],
                        operation |-> query_plan.operation, records |-> 0,
                        validated |-> TRUE, executed |-> ran, result |-> PyNone]
    IN IF query_plan.invalid_location_mentioned THEN nodata(FALSE)
       ELSE IF result_data = PyNone
       THEN \* result_data.get('count', 0) on None: AttributeError, not caught
            [raised |-> TRUE, exception |-> "AttributeError",
             operation |-> query_plan.operation, executed |-> TRUE]
       ELSE IF ~validate_results(query_plan, result_data) THEN nodata(TRUE)
       ELSE [raised |-> FALSE,
             response |-> format_response(query_plan, result_data),
             operation |-> query_plan.operation, records |-> result_data.count,
             validated |-> TRUE, executed |-> TRUE, result |-> result_data,
             filters |-> query_plan.filters]

----------------------------------------------------------------------------
(* backend/query_executor.py : QueryExecutor *)

FilterPreview == 10

FilterFields == <<"shipment_id", "source_location", "destination_location", "status", "sku">>

\* _apply_filters: one boolean-mask selection per filter of the dictionary
RECURSIVE apply_filters_from(_, _, _)
apply_filters_from(result_df, fs, k) ==
    IF k > Len(FilterFields) THEN result_df
    ELSE apply_filters_from(IF FilterFields[k] \in DOMAIN fs
                            THEN FilterEq(result_df, FilterFields[k], fs[FilterFields[k]])
                            ELSE result_df, fs, k + 1)

apply_filters(table, fs) == apply_filters_from(table, fs, 1)

execute_count(result_df) ==
    [intent |-> "COUNT", record_count |-> Len(result_df), data |-> <<>>,
     summary |-> <<"Total: {} records", Len(result_df)>>]

\* a plausible slip: the count is taken from the preview
execute_filter_preview_len(result_df) ==
    [intent |-> "FILTER", record_count |-> Len(HeadRows(result_df, FilterPreview)),
     data |-> HeadRows(result_df, FilterPreview),
     summary |-> <<"Found {} records", Len(HeadRows(result_df, FilterPreview))>>]

execute_filter(result_df) ==
    [intent |-> "FILTER", record_count |-> Len(result_df),
     data |-> HeadRows(result_df, FilterPreview),
     summary |-> <<"Found {} records", Len(result_df)>>]

\* _execute_details: the first matching row as stored, no enrichment
execute_details(result_df) ==
    IF Len(result_df) = 0
    THEN [intent |-> "DETAILS", record_count |-> 0, data |-> <<>>,
          summary |-> <<"Shipment not found">>]
    ELSE [intent |-> "DETAILS", record_count |-> 1, data |-> <<result_df[1]>>,
          summary |-> <<"Shipment {}: {} ({} units) from {} to {}, Status: {}",
                        result_df[1].shipment_id, result_df[1].sku, result_df[1].quantity,
                        result_df[1].source_location, result_df[1].destination_location,
                        result_df[1].status>>]

\* _execute_metrics: the rates exist only when a row has arrived; the table has
\* no delay_days column, so avg_delay_days is 0
execute_metrics(result_df, fs) ==
    LET total_shipments == Len(result_df)
        arrived == Cardinality(ArrivedRows(result_df))
        on_time == Cardinality(OnTimeRows(result_df))
        delayed == arrived - on_time
        rates == IF arrived > 0
                 THEN [k \in {"on_time_rate", "delay_rate", "avg_delay_days"} |->
                          CASE k = "on_time_rate" -> Round2Pct(on_time, arrived)
                            [] k = "delay_rate" -> Round2Pct(delayed, arrived)
                            [] OTHER -> 0]
                 ELSE <<>>
        counts == [k \in {"total_shipments", "arrived_shipments", "in_transit"} |->
                      CASE k = "total_shipments" -> total_shipments
                        [] k = "arrived_shipments" -> arrived
                        [] OTHER -> Cardinality({i \in 1..Len(result_df) :
                                                    result_df[i].status = "IN_TRANSIT"})]
        metrics == [k \in DOMAIN rates \cup DOMAIN counts |->
                       IF k \in DOMAIN rates THEN rates[k] ELSE counts[k]]
    IN [intent |-> "METRICS", record_count |-> total_shipments, data |-> <<>>,
        metrics |-> metrics,
        summary |-> <<"Shipment metrics{}: On-time rate: {}%, Delay rate: {}%, Total shipments: {}",
                      IF "destination_location" \in DOMAIN fs /\ fs["destination_location"] # ""
                      THEN " to " \o fs["destination_location"] ELSE "",
                      IF "on_time_rate" \in DOMAIN metrics THEN metrics["on_time_rate"] ELSE 0,
                      IF "delay_rate" \in DOMAIN metrics THEN metrics["delay_rate"] ELSE 0,
                      total_shipments>>]

\* Python's order of the strings a grouping key can hold (str.__lt__), used
\* where pandas sorts group keys
ValueOrder == <<"ARRIVED", "CN-SHZ", "DE-FRA", "IN-DEL", "IN-MUM", "IN_TRANSIT", "SG-SIN",
                "SKU-0001", "SKU-0002", "SKU-0003", "TH-BKK", "UK-LON", "US-LAX">>

RankOf(v) == CHOOSE i \in 1..Len(ValueOrder) : ValueOrder[i] = v

\* the position of a key tuple in the lexicographic order of its values
KeyRank(key) ==
    LET upto[k \in 0..Len(key)] ==
            IF k = 0 THEN 0 ELSE upto[k - 1] * (Len(ValueOrder) + 1) + RankOf(key[k])
    IN upto[Len(key)]

\* the key of a row under group_by: the values of the grouping columns
KeyOf(row, group_by) == [k \in 1..Len(group_by) |-> row[group_by[k]]]

\* groupby(group_by): the distinct keys in ascending order (sort=True)
RECURSIVE SortedKeys(_, _)
SortedKeys(keys, acc) ==
    IF keys = {} THEN acc
    ELSE LET least == CHOOSE a \in keys : \A b \in keys : KeyRank(a) <= KeyRank(b)
         IN SortedKeys(keys \ {least}, Append(acc, least))

GroupKeys(df, group_by) ==
    SortedKeys({KeyOf(df[k], group_by) : k \in 1..Len(df)}, <<>>)

\* the rows of a group
GroupRows(df, group_by, key) == SelectSeq(df, LAMBDA row : KeyOf(row, group_by) = key)

\* row.get(field, 'N/A') on a grouped row
KeyField(key, group_by, field) ==
    IF \E n \in 1..Len(group_by) : group_by[n] = field
    THEN key[CHOOSE n \in 1..Len(group_by) : group_by[n] = field]
    ELSE "N/A"

\* the keys with their sign changed, so that the largest is the smallest
Negated(keys) ==
    LET upto[k \in 0..Len(keys)] == IF k = 0 THEN <<>> ELSE Append(upto[k - 1], 0 - keys[k])
    IN upto[Len(keys)]

\* a plausible slip: the groups are cut to k before they are sorted
execute_top_k_head_before_sort(result_df, top_k, group_by_arg) ==
    LET group_by == IF group_by_arg = <<>> THEN <<"destination_location">> ELSE group_by_arg
        keys == GroupKeys(result_df, group_by)
        grouped[i \in 0..Len(keys)] ==
            IF i = 0 THEN <<>>
            ELSE LET rows == GroupRows(result_df, group_by, keys[i])
                     delayed == Cardinality(LateRows(rows))
                 IN Append(grouped[i - 1],
                           [key |-> keys[i], total_shipments |-> Len(rows),
                            delayed_shipments |-> delayed,
                            delay_rate |-> Round2Pct(delayed, Len(rows))])
        k == IF top_k = Nothing \/ top_k = Some(0) THEN 10 ELSE top_k[1]
        all == HeadRows(grouped[Len(keys)], k)
        top_results == NLargest(all, k, Column(all, "delay_rate"))
    IN [intent |-> "TOP_K", record_count |-> Len(result_df), top_k |-> k,
        group_by |-> group_by, data |-> top_results,
        summary |-> IF top_results = <<>> THEN <<"No data">>
                    ELSE [n \in 1..Len(top_results) |-> <<"N/A", top_results[n].delay_rate,
                             top_results[n].delayed_shipments,
                             top_results[n].total_shipments>>]]

\* _execute_top_k: groups with total_shipments = count of all rows of the group,
\* delayed_shipments = rows arrived after expected_arrival, delay_rate =
\* delayed / total * 100 rounded to 2 places; sorted by delay_rate descending
\* (ties stay in key order); the first k = top_k or 10 groups
execute_top_k(result_df, top_k, group_by_arg) ==
    LET group_by == IF group_by_arg = <<>> THEN <<"destination_location">> ELSE group_by_arg
        keys == GroupKeys(result_df, group_by)
        grouped[i \in 0..Len(keys)] ==
            IF i = 0 THEN <<>>
            ELSE LET rows == GroupRows(result_df, group_by, keys[i])
                     delayed == Cardinality(LateRows(rows))
                 IN Append(grouped[i - 1],
                           [key |-> keys[i], total_shipments |-> Len(rows),
                            delayed_shipments |-> delayed,
                            delay_rate |-> Round2Pct(delayed, Len(rows))])
        all == grouped[Len(keys)]
        k == IF top_k = Nothing \/ top_k = Some(0) THEN 10 ELSE top_k[1]
        top_results == NLargest(all, k, Column(all, "delay_rate"))
        line(row) == <<IF \E j \in 1..Len(group_by) : group_by[j] = "source_location"
                       THEN KeyField(row.key, group_by, "source_location") \o " to "
                               \o KeyField(row.key, group_by, "destination_location")
                       ELSE KeyField(row.key, group_by, "destination_location"),
                       row.delay_rate, row.delayed_shipments, row.total_shipments>>
    IN [intent |-> "TOP_K", record_count |-> Len(result_df), top_k |-> k,
        group_by |-> group_by, data |-> top_results,
        summary |-> IF top_results = <<>> THEN <<"No data">>
                    ELSE [n \in 1..Len(top_results) |-> line(top_results[n])]]

\* QueryExecutor.execute for the intents DETAILS, COUNT, METRICS, TOP_K and FILTER (the default)
executor_execute(table, query_instruction) ==
    LET result_df == apply_filters(table, query_instruction.filters)
    IN IF Len(result_df) = 0
       THEN [intent |-> query_instruction.intent, record_count |-> 0, data |-> <<>>,
             summary |-> <<"No records found matching filters">>]
       ELSE CASE query_instruction.intent = "DETAILS" -> execute_details(result_df)
              [] query_instruction.intent = "COUNT" -> execute_count(result_df)
              [] query_instruction.intent = "METRICS" ->
                    execute_metrics(result_df, query_instruction.filters)
              [] query_instruction.intent = "TOP_K" ->
                    execute_top_k(result_df, query_instruction.top_k,
                                  query_instruction.group_by)
              [] OTHER -> execute_filter(result_df)

----------------------------------------------------------------------------
(* data_enrichment.py : enrich_shipment and its helpers.  Dates are whole    *)
(* days; an optional value is Nothing or Some(v); a rendered text is its     *)
(* template with the numbers it interpolates.                                *)

Text(template, args) == [text |-> template, args |-> args]

\* f"{source} -> {destination}" with U+2192 as the arrow (enrich_shipment's default)
ArrowRoute(source, destination) == source \o " [U+2192] " \o destination

\* normalize_date: None for a missing value, else the formatted timestamp;
\* a string and a parsed Timestamp of the same instant format alike
normalize_date(date_value) == IF date_value = NaT THEN Nothing ELSE Some(date_value)

calculate_transit_days(shipped, arrived) ==
    IF shipped = Nothing \/ arrived = Nothing THEN Nothing ELSE Some(arrived[1] - shipped[1])

calculate_expected_transit_days(shipped, expected) ==
    IF shipped = Nothing \/ expected = Nothing THEN 0
    ELSE IF expected[1] - shipped[1] > 1 THEN expected[1] - shipped[1] ELSE 1

calculate_delay_days(expected, arrived) ==
    IF expected = Nothing \/ arrived = Nothing THEN Nothing
    ELSE Some(IF arrived[1] - expected[1] > 0 THEN arrived[1] - expected[1] ELSE 0)

determine_status_label(raw_status, delay_days, arrived, expected, clock) ==
    IF arrived # Nothing /\ raw_status \in {"ARRIVED", "DELIVERED", "COMPLETED"}
    THEN IF delay_days = Nothing \/ delay_days[1] <= 0
         THEN Text("Delivered On Time", <<>>)
         ELSE Text("Delivered Late (by {} days)", <<delay_days[1]>>)
    ELSE IF raw_status \in {"IN_TRANSIT", "IN TRANSIT", "SHIPPED", "DISPATCHED", "IN_PROGRESS"}
    THEN IF expected # Nothing /\ expected[1] < clock
         THEN Text("In Transit & Overdue", <<>>)
         ELSE Text("In Transit", <<>>)
    ELSE IF raw_status \in {"PENDING", "WAITING", "PROCESSING", "PREPARING"}
    THEN Text("Pending Processing", <<>>)
    ELSE Text("Status: " \o raw_status, <<>>)

\* datetime.weekday() of a day, day 0 being a Monday
Weekday(day) == day % 7

estimate_delay_reason(expected, arrived, delay_days, source, destination) ==
    IF delay_days = Nothing \/ delay_days[1] <= 0 THEN Nothing
    ELSE LET reasons ==
                 (IF delay_days[1] > 10 THEN <<"Extended delay detected">>
                  ELSE IF delay_days[1] > 5 THEN <<"Moderate delay">> ELSE <<>>)
              \o (IF source # "" /\ destination # "" /\ source # destination
                  THEN <<"Complex routing may have contributed">> ELSE <<>>)
              \o (IF arrived # Nothing /\ Weekday(arrived[1]) >= 5
                  THEN <<"Possible weekend processing delays">> ELSE <<>>)
         IN Some(IF reasons # <<>> THEN reasons ELSE <<"Delay reason unclear from data">>)

forecast_eta(expected, arrived, raw_status, clock) ==
    IF arrived # Nothing \/ expected = Nothing THEN Nothing
    ELSE IF raw_status \notin {"IN_TRANSIT", "IN TRANSIT", "SHIPPED", "DISPATCHED"} THEN Nothing
    ELSE IF expected[1] < clock
    THEN Some(Text("Expected on {} ({} days overdue)", <<expected[1], clock - expected[1]>>))
    ELSE IF expected[1] - clock = 0 THEN Some(Text("Expected today: {}", <<expected[1]>>))
    ELSE IF expected[1] - clock = 1 THEN Some(Text("Expected tomorrow: {}", <<expected[1]>>))
    ELSE Some(Text("Expected in {} days: {}", <<expected[1] - clock, expected[1]>>))

\* a plausible slip: an overdue shipment weighs as one that is not yet due
calculate_risk_score_no_overdue(delay_days, expected, arrived, raw_status, clock) ==
    LET waiting == IF arrived # Nothing THEN 0
                   ELSE IF expected = Nothing THEN 30 ELSE 20
        late == IF delay_days = Nothing \/ delay_days[1] <= 0 THEN 0
                ELSE IF delay_days[1] >= 10 THEN 50
                ELSE IF delay_days[1] >= 5 THEN 30 ELSE 10
    IN IF waiting + late > 100 THEN 100 ELSE waiting + late

\* the score in hundredths
calculate_risk_score(delay_days, expected, arrived, raw_status, clock) ==
    LET waiting == IF arrived # Nothing THEN 0
                   ELSE IF expected = Nothing THEN 30
                   ELSE IF expected[1] < clock THEN 70 ELSE 20
        late == IF delay_days = Nothing \/ delay_days[1] <= 0 THEN 0
                ELSE IF delay_days[1] >= 10 THEN 50
                ELSE IF delay_days[1] >= 5 THEN 30 ELSE 10
    IN IF waiting + late > 100 THEN 100 ELSE waiting + late

determine_shipment_health(risk_score, delay_days, raw_status) ==
    IF raw_status \in {"ARRIVED", "DELIVERED", "COMPLETED"}
    THEN IF delay_days = Nothing \/ delay_days[1] <= 0 THEN "Excellent"
         ELSE IF delay_days[1] <= 3 THEN "Good" ELSE "Late"
    ELSE IF raw_status \in {"IN_TRANSIT", "IN TRANSIT", "SHIPPED", "DISPATCHED"}
    THEN IF risk_score > 60 THEN "At Risk"
         ELSE IF risk_score > 30 THEN "Caution" ELSE "Good"
    ELSE "In Progress"

create_status_interpretation(status_label, delay_days, expected, actual, raw_status, clock) ==
    IF raw_status \in {"ARRIVED", "DELIVERED", "COMPLETED"}
    THEN IF delay_days = Nothing \/ delay_days[1] <= 0
         THEN Text("Shipment delivered on time and ready for pickup/use.", <<>>)
         ELSE Text("Shipment delivered {} days late.", <<delay_days[1]>>)
    ELSE IF raw_status \in {"IN_TRANSIT", "IN TRANSIT", "SHIPPED", "DISPATCHED"}
    THEN IF expected # Nothing
         THEN IF expected[1] - clock > 0
              THEN Text("in transit and on schedule. Expected arrival in {} days.",
                        <<expected[1] - clock>>)
              ELSE Text("in transit but has exceeded the expected delivery date by {} days.",
                        <<clock - expected[1]>>)
         ELSE Text("actively moving through the supply chain.", <<>>)
    ELSE IF raw_status \in {"PENDING", "WAITING", "PROCESSING", "PREPARING"}
    THEN Text("being prepared and will be dispatched shortly.", <<>>)
    ELSE Text("Current status: {}.", <<>>)

create_timeline_summary(shipped, expected, actual, transit_days, expected_transit_days) ==
    (IF shipped # Nothing THEN <<Text("Shipped on {}", <<shipped[1]>>)>> ELSE <<>>)
    \o (IF expected # Nothing
        THEN <<Text("Expected arrival {} ({} days planned)",
                    <<expected[1], expected_transit_days>>)>> ELSE <<>>)
    \o (IF actual # Nothing
        THEN <<Text("Actually arrived {}", <<actual[1]>>)>>
             \o (IF transit_days # Nothing /\ transit_days[1] # 0
                 THEN <<Text("(took {} days)", <<transit_days[1]>>)>> ELSE <<>>)
        ELSE <<>>)

generate_recommendations(status_label, risk_score, delay_days, expected, raw_status, clock) ==
    LET late == delay_days # Nothing /\ delay_days[1] > 0
        recommendations ==
               (IF late THEN <<"Contact carrier to understand delay reasons">> ELSE <<>>)
            \o (IF late /\ delay_days[1] >= 7
                THEN <<"Consider filing a claim if delay impacts business">> ELSE <<>>)
            \o (IF raw_status \in {"IN_TRANSIT", "IN TRANSIT"} /\ expected # Nothing
                   /\ expected[1] < clock
                THEN <<"Follow up with logistics provider regarding delayed delivery">>
                ELSE <<>>)
            \o (IF risk_score > 60
                THEN <<"Monitor shipment closely and prepare contingency plans">> ELSE <<>>)
            \o (IF raw_status \in {"PENDING", "WAITING", "PROCESSING"}
                THEN <<"Check back soon for shipping updates">> ELSE <<>>)
            \o (IF status_label.text = "Delivered On Time"
                THEN <<"Schedule pickup or arrange delivery at your convenience">> ELSE <<>>)
    IN IF recommendations = <<>> THEN <<"Continue tracking for status updates">>
       ELSE recommendations

\* enrich_shipment(row) at the time `clock`; row is a dictionary of the frame's columns
enrich_shipment(row, clock) ==
    LET source == row.source_location
        destination == row.destination_location
        route == IF "route" \in DOMAIN row THEN row.route ELSE ArrowRoute(source, destination)
        raw_status == row.status
        shipped_date == normalize_date(row.departed_at)
        expected_arrival == normalize_date(row.expected_arrival)
        actual_arrival == normalize_date(row.arrived_at)
        transit_days == calculate_transit_days(shipped_date, actual_arrival)
        expected_transit_days == calculate_expected_transit_days(shipped_date, expected_arrival)
        delay_days == calculate_delay_days(expected_arrival, actual_arrival)
        status_label == determine_status_label(raw_status, delay_days, actual_arrival,
                                               expected_arrival, clock)
        risk_score == calculate_risk_score(delay_days, expected_arrival, actual_arrival,
                                           raw_status, clock)
    IN [shipment_id |-> row.shipment_id, sku |-> row.sku, quantity |-> row.quantity,
        source |-> source, destination |-> destination, route |-> route,
        shipped_date |-> shipped_date, expected_arrival |-> expected_arrival,
        actual_arrival |-> actual_arrival, status_label |-> status_label,
        transit_days |-> transit_days, expected_transit_days |-> expected_transit_days,
        delay_days |-> delay_days, risk_score |-> risk_score,
        shipment_health |-> determine_shipment_health(risk_score, delay_days, raw_status),
        estimated_delay_reason |-> estimate_delay_reason(expected_arrival, actual_arrival,
                                                         delay_days, source, destination),
        eta_forecast |-> forecast_eta(expected_arrival, actual_arrival, raw_status, clock),
        status_interpretation |-> create_status_interpretation(status_label, delay_days,
                                      expected_arrival, actual_arrival, raw_status, clock),
        timeline_summary |-> create_timeline_summary(shipped_date, expected_arrival,
                                      actual_arrival, transit_days, expected_transit_days),
        recommendations |-> generate_recommendations(status_label, risk_score, delay_days,
                                      expected_arrival, raw_status, clock),
        raw_status |-> raw_status]

----------------------------------------------------------------------------
(* query_engine.py : the cached frame and the query handlers *)

\* a DataFrame: the dtype of each column, and the rows as dictionaries
Frame(dtypes, rows) == [dtypes |-> dtypes, rows |-> rows]

\* pd.read_csv of the shipment file: the date columns arrive as text (object)
read_csv(file_rows) ==
    Frame([c \in {"shipment_id", "source_location", "destination_location", "departed_at",
                  "expected_arrival", "arrived_at", "status", "sku", "quantity"} |->
              IF c = "quantity" THEN "int64" ELSE "object"],
          file_rows)

\* load_csv: the cached frame when there is one, else the file, which it caches
load_csv(cache, file_rows) == IF cache # Nothing THEN cache[1] ELSE read_csv(file_rows)

\* df[col] = values, one value per row, on the frame itself
SetColumn(frame, col, dtype, values) ==
    LET rows == frame.rows
        upto[k \in 0..Len(rows)] ==
            IF k = 0 THEN <<>> ELSE Append(upto[k - 1], (col :> values[k]) @@ rows[k])
    IN Frame((col :> dtype) @@ frame.dtypes, upto[Len(rows)])

\* df[col] = pd.to_datetime(df[col], errors='coerce'): same instants, new dtype
ToDatetime(frame, col) == SetColumn(frame, col, "datetime64[ns]", Column(frame.rows, col))

QueryResult(query_type, result, data, summary) ==
    [query_type |-> query_type, result |-> Some(result), data |-> Some(data),
     summary |-> summary, error |-> Nothing]

QueryError(query_type, error, summary) ==
    [query_type |-> query_type, result |-> Nothing, data |-> Nothing,
     summary |-> summary, error |-> Some(error)]

\* groupby(col).size(): one entry per value of the column
GroupSizes(rows, col) ==
    LET keys == UniqueOf(Column(rows, col), <<>>)
    IN [k \in 1..Len(keys) |-> [key |-> keys[k], size |-> Len(FilterEq(rows, col, keys[k]))]]

\* each handler: <<the frame it leaves in the cache, the QueryResult it returns>>
get_sku_count(cache, file_rows) ==
    LET frame == load_csv(cache, file_rows)
    IN <<frame, QueryResult("sku_count",
                    [total_skus |-> Len(UniqueOf(Column(frame.rows, "sku"), <<>>))], <<>>,
                    Text("Total unique SKUs: {}",
                         <<Len(UniqueOf(Column(frame.rows, "sku"), <<>>))>>))>>

get_top_routes(cache, file_rows, limit) ==
    LET df == load_csv(cache, file_rows)
        frame == SetColumn(df, "route", "object",
                     [k \in 1..Len(df.rows) |->
                         df.rows[k].source_location \o " -> " \o df.rows[k].destination_location])
        route_counts == GroupSizes(frame.rows, "route")
    IN <<frame, QueryResult("top_routes", [total_routes |-> Len(route_counts)],
                    NLargest(route_counts, limit, Column(route_counts, "size")),
                    Text("Top {} routes by shipment count", <<limit>>))>>

get_delayed_shipments(cache, file_rows, limit) ==
    LET frame == ToDatetime(ToDatetime(load_csv(cache, file_rows), "expected_arrival"),
                            "arrived_at")
        arrived == FilterEq(frame.rows, "status", "ARRIVED")
        late == SelectSeq(arrived, LAMBDA row : row.arrived_at # NaT
                                       /\ row.arrived_at - row.expected_arrival > 0)
        delayed == NLargest(late, limit,
                       [k \in 1..Len(late) |-> late[k].arrived_at - late[k].expected_arrival])
    IN <<frame, QueryResult("delayed_shipments", [total_delayed |-> Len(delayed)],
                    [k \in 1..Len(delayed) |->
                        [shipment_id |-> delayed[k].shipment_id, sku |-> delayed[k].sku,
                         status |-> delayed[k].status,
                         delay_days |-> delayed[k].arrived_at - delayed[k].expected_arrival]],
                    Text("Found {} delayed shipments", <<Len(delayed)>>))>>

get_summary_stats(cache, file_rows) ==
    LET df == load_csv(cache, file_rows)
        frame == SetColumn(df, "route", "object",
                     [k \in 1..Len(df.rows) |->
                         df.rows[k].source_location \o " [U+00E2 U+2020 U+2019] "
                             \o df.rows[k].destination_location])
        total_shipments == Len(frame.rows)
        arrived_count == Len(FilterEq(frame.rows, "status", "ARRIVED"))
    IN <<frame, QueryResult("summary_stats",
                    [total_shipments |-> total_shipments,
                     arrived_count |-> arrived_count,
                     in_transit_count |-> Len(FilterEq(frame.rows, "status", "IN_TRANSIT")),
                     delayed_count |-> Len(FilterEq(frame.rows, "status", "DELAYED")),
                     on_time_rate_pct |-> Round2Pct(arrived_count, total_shipments),
                     delay_rate_pct |-> 10000 - Round2Pct(arrived_count, total_shipments),
                     unique_skus |-> Len(UniqueOf(Column(frame.rows, "sku"), <<>>)),
                     unique_routes |-> Len(UniqueOf(Column(frame.rows, "route"), <<>>))],
                    <<>>,
                    Text("Supply chain overview - {} total shipments", <<total_shipments>>))>>

get_sku_delay_analysis(cache, file_rows, limit) ==
    LET df == load_csv(cache, file_rows)
        normed == SetColumn(df, "status_norm", "object",
                      [k \in 1..Len(df.rows) |-> Upper(Strip(df.rows[k].status))])
        dated == ToDatetime(ToDatetime(normed, "expected_arrival"), "arrived_at")
        frame == SetColumn(dated, "is_delayed", "bool",
                     [k \in 1..Len(dated.rows) |->
                         \/ dated.rows[k].status_norm \in {"DELAYED", "LATE"}
                         \/ (dated.rows[k].arrived_at # NaT
                               /\ dated.rows[k].arrived_at > dated.rows[k].expected_arrival)])
        \* groupby('sku'): the SKUs in ascending order
        skus == Column(GroupKeys(frame.rows, <<"sku">>), 1)
        \* delay_rate_pct is delayed / shipment_count * 100, kept as the two counts
        sku_delay_rate == [k \in 1..Len(skus) |->
            LET of_sku == FilterEq(frame.rows, "sku", skus[k])
            IN [sku |-> skus[k],
                delayed |-> Len(SelectSeq(of_sku, LAMBDA row : row.is_delayed)),
                shipment_count |-> Len(of_sku)]]
    IN IF df.rows = <<>>
       THEN <<df, QueryError("sku_delay_analysis", "No data available",
                             Text("No data available", <<>>))>>
       ELSE
       <<frame, QueryResult("sku_delay_analysis", [total_skus_analyzed |-> Len(sku_delay_rate)],
                    NLargest(sku_delay_rate, limit,
                             [k \in 1..Len(sku_delay_rate) |->
                                 Round2Pct(sku_delay_rate[k].delayed,
                                           sku_delay_rate[k].shipment_count)]),
                    Text("Top {} SKUs by delay rate", <<limit>>))>>

get_shipment_details(cache, file_rows, shipment_id, clock) ==
    LET frame == load_csv(cache, file_rows)
        normalized_id == Upper(Strip(shipment_id))
        shipment == SelectSeq(frame.rows,
                        LAMBDA row : Upper(Strip(row.shipment_id)) = normalized_id)
        enriched == enrich_shipment(shipment[1], clock)
    IN <<frame,
         IF shipment = <<>>
         THEN QueryError("shipment_details", "Shipment " \o shipment_id \o " not found",
                         Text("No shipment found with ID: " \o shipment_id, <<>>))
         ELSE QueryResult("shipment_details",
                  [shipment_id |-> enriched.shipment_id, sku |-> enriched.sku,
                   quantity |-> enriched.quantity, status |-> enriched.status_label,
                   health |-> enriched.shipment_health, risk_score |-> enriched.risk_score],
                  <<[shipment_id |-> enriched.shipment_id, sku |-> enriched.sku,
                     quantity |-> enriched.quantity, route |-> enriched.route,
                     status |-> enriched.status_label,
                     status_interpretation |-> enriched.status_interpretation,
                     shipped_date |-> enriched.shipped_date,
                     expected_arrival |-> enriched.expected_arrival,
                     actual_arrival |-> enriched.actual_arrival,
                     transit_days |-> enriched.transit_days,
                     delay_days |-> enriched.delay_days,
                     health |-> enriched.shipment_health,
                     risk_score |-> enriched.risk_score,
                     timeline_summary |-> enriched.timeline_summary,
                     eta_forecast |-> enriched.eta_forecast,
                     recommendations |-> enriched.recommendations]>>,
                  Text("Shipment " \o enriched.shipment_id \o ": "
                          \o enriched.status_label.text, enriched.status_label.args))>>

----------------------------------------------------------------------------
(* intent_detector.py : detect_intent *)

DefaultLimit == 10

\* QueryIntent(query_type, filters={}, limit, confidence); confidence in hundredths
QueryIntent(query_type, confidence) ==
    [returned |-> "QueryIntent", query_type |-> query_type, limit |-> DefaultLimit,
     confidence |-> confidence]

\* the value of a call that reaches the end of detect_intent without a return
NoIntent == [returned |-> "None"]

\* The phrases are tested with Python's `in`: 'shipment.*to ' is the literal text.
detect_intent(user_query) ==
    LET q == Strip(Lower(user_query))
    IN IF AnyIn(q, {"destination order", "order to ", "how many.*destination",
                    "shipment.*to ", "orders.*destination", "destination shipment",
                    "to which", "orders towards"})
       THEN QueryIntent("orders_by_destination", 95)
       ELSE IF AnyIn(q, {"source order", "order from ", "how many.*source",
                         "shipment.*from ", "orders.*source", "source shipment",
                         "from which", "orders from source"})
       THEN QueryIntent("orders_by_source", 95)
       ELSE IF AnyIn(q, {"orders per sku", "order count by sku", "shipments per sku",
                         "which sku have more order", "sku have more order",
                         "sku with more order", "orders by sku", "order per sku",
                         "which sku have more shipment", "sku have more shipment",
                         "sku with more shipment", "shipments by sku", "shipment per sku",
                         "how many orders.*sku"})
       THEN QueryIntent("orders_per_sku", 95)
       ELSE IF AnyIn(q, {"how many sku", "total sku", "sku count", "number of sku",
                         "unique sku", "how many different sku", "total number of sku"})
       THEN QueryIntent("sku_count", 95)
       ELSE IF AnyIn(q, {"top route", "busiest route", "most shipment", "popular route",
                         "highest shipment", "most popular route", "peak route",
                         "main route", "how many route", "how many different route",
                         "total route", "number of route", "unique route"})
       THEN QueryIntent("top_routes", 90)
       ELSE IF AnyIn(q, {"delayed shipment", "late shipment", "delayed delivery",
                         "late delivery", "show delayed", "list delayed",
                         "which shipment delayed", "delayed order", "delayed orders"})
       THEN QueryIntent("delayed_shipments", 95)
       ELSE IF AnyIn(q, {"sku delay", "problematic sku", "sku by delay", "sku performance",
                         "delay by sku", "sku with delay", "sku delay rate", "delayed sku",
                         "which sku.*problem", "which sku.*delay", "sku.*most delay",
                         "sku.*problematic"})
       THEN QueryIntent("sku_delay_analysis", 95)
       ELSE IF AnyIn(q, {"route delay", "route performance", "route by delay",
                         "problematic route", "delay by route", "route with delay",
                         "delayed route", "route delay rate", "which route.*delay",
                         "which route.*problem", "route.*most delay",
                         "routes have.*most delay"})
       THEN QueryIntent("route_delay_analysis", 95)
       ELSE IF AnyIn(q, {"summary", "overview", "statistics", "total shipments",
                         "all shipments", "give me summary", "overall", "total order"})
       THEN QueryIntent("summary_stats", 85)
       ELSE IF AnyIn(q, {"recommend", "suggest", "improve", "strategy", "solution",
                         "optimize", "best practice", "efficiency", "opportunity",
                         "insight", "analysis", "report"})
       THEN QueryIntent("generative_insights", 75)
       ELSE IF AnyIn(q, {"how", "what", "why"})
       THEN QueryIntent("summary_stats", 65)
       ELSE NoIntent

----------------------------------------------------------------------------
(* The classification and pipeline state machine *)

\* the number of keyword phrases a modelled question strings together
MaxPhrases == 2

\* Keyword phrases of the questions; "" yields leading and doubled blanks.
KeywordPhrases == {"", "SHP-0000001", "top", "how many", "analysis", "rate", "unique",
                   "filter", "sum", "show", "hello"}

\* location-like tokens: a valid code, a code-shaped unknown, an alias of a
\* location outside the dataset
LocTokens == {"US-LAX", "ZZ-ZZZ", "sfo"}

LocClauses ==
    {""} \cup LocTokens
         \cup {"to " \o x : x \in LocTokens}
         \cup {"from " \o x : x \in LocTokens}
         \cup {"from " \o x \o " to " \o y : x \in LocTokens, y \in LocTokens}

RECURSIVE JoinWords(_)
JoinWords(ws) ==
    IF ws = <<>> THEN ""
    ELSE IF Len(ws) = 1 THEN ws[1]
    ELSE ws[1] \o " " \o JoinWords(Tail(ws))

PhraseSeqs == UNION {[1..n -> KeywordPhrases] : n \in 0..MaxPhrases}

Questions == {JoinWords(Append(ws, c)) : ws \in PhraseSeqs, c \in LocClauses}

\* the fixture table the pipeline runs on
Fixture == <<
    [shipment_id |-> "SHP-0000001", source_location |-> "IN-DEL",
     destination_location |-> "US-LAX", departed_at |-> 1, expected_arrival |-> 5,
     arrived_at |-> 4, status |-> "ARRIVED", sku |-> "SKU-0001", quantity |-> 7],
    [shipment_id |-> "SHP-0000002", source_location |-> "US-LAX",
     destination_location |-> "IN-DEL", departed_at |-> 1, expected_arrival |-> 5,
     arrived_at |-> 8, status |-> "ARRIVED", sku |-> "SKU-0002", quantity |-> 3],
    [shipment_id |-> "SHP-0000003", source_location |-> "IN-DEL",
     destination_location |-> "US-LAX", departed_at |-> 2, expected_arrival |-> 9,
     arrived_at |-> NaT, status |-> "IN_TRANSIT", sku |-> "SKU-0001", quantity |-> 5] >>

vars == <<question, plan, detected, out, self_df, the_filters, count_out, filter_out, metrics_out,
          pipe_out, details_out, rank_out, parsed, csv_data, now, first_details, engine_out,
          shipment_row, shipment_summary, risk_rendered, module_cache, file_state,
          load_pc, load_got, parses, config_manager, session_messages, insight, sessions,
          chat_reply>>

classVars == <<question, plan, detected, out, parsed>>
execVars == <<self_df, the_filters, count_out, filter_out, metrics_out, pipe_out, details_out,
             rank_out>>
engineVars == <<csv_data, now, first_details, engine_out, shipment_row, shipment_summary,
               risk_rendered>>
loadVars == <<module_cache, file_state, load_pc, load_got, parses>>
llmVars == <<config_manager, session_messages, insight, sessions, chat_reply>>

\* the phrasing state while no phrasing is under study
LlmIdle ==
    /\ config_manager = <<>>
    /\ session_messages = <<>>
    /\ insight = Nothing
    /\ sessions = <<>>
    /\ chat_reply = Nothing

\* the loader state while no loader is under study
LoadIdle ==
    /\ module_cache = <<>>
    /\ file_state = "ok"
    /\ load_pc = <<>>
    /\ load_got = <<>>
    /\ parses = 0

\* the engine state while no engine is under study
EngineIdle ==
    /\ csv_data = Nothing
    /\ now = 0
    /\ first_details = Nothing
    /\ engine_out = Nothing
    /\ shipment_row = Nothing
    /\ shipment_summary = Nothing
    /\ risk_rendered = Nothing

\* the executor state while no executor is under study
ExecIdle ==
    /\ self_df = <<>>
    /\ the_filters = <<>>
    /\ count_out = Nothing
    /\ filter_out = Nothing
    /\ metrics_out = Nothing
    /\ pipe_out = Nothing
    /\ details_out = Nothing
    /\ rank_out = Nothing

Init ==
    /\ question \in Questions
    /\ plan = Nothing
    /\ detected = Nothing
    /\ out = Nothing
    /\ parsed = Nothing
    /\ ExecIdle
    /\ EngineIdle
    /\ LoadIdle
    /\ LlmIdle

\* QueryPlanner.plan_query(question)
PlanQuery ==
    /\ plan = Nothing
    /\ plan' = Some(plan_query(question))
    /\ UNCHANGED <<question, detected, out, parsed, execVars, engineVars, loadVars, llmVars>>

\* intent_detector.detect_intent(question)
DetectIntent ==
    /\ detected = Nothing
    /\ detected' = Some(detect_intent(question))
    /\ UNCHANGED <<question, plan, out, parsed, execVars, engineVars, loadVars, llmVars>>

\* HybridQueryPipeline(Fixture).execute(question)
Execute ==
    /\ out = Nothing
    /\ out' = Some(pipeline_execute(Fixture, question))
    /\ UNCHANGED <<question, plan, detected, parsed, execVars, engineVars, loadVars, llmVars>>

Next == PlanQuery \/ DetectIntent \/ Execute

Spec == Init /\ [][Next]_vars

----------------------------------------------------------------------------
(* Classification and pipeline properties *)

\* the question holds SHP- and seven digits, in any letter case
HasShipmentId(q) == extract_shipment_id(Strip(Lower(q))) # None

\* a token in a 'to X' / 'from X' position, or a code-shaped token, that does
\* not resolve to a valid location
UnresolvedMention(q) ==
    LET t == Strip(Lower(q))
        codes == FindAllCodes(t, 1)
    IN \/ \E i \in KwTokenHits(t, "to") : ResolveLocation(KwToken(t, i, "to")) = None
       \/ \E i \in KwTokenHits(t, "from") : ResolveLocation(KwToken(t, i, "from")) = None
       \/ \E k \in 1..Len(codes) : ResolveLocation(codes[k]) = None

\* C1: a question that contains a shipment ID is classified as the
\* shipment-details operation (DETAILS by the planner, shipment_details by the
\* intent detector), whatever other rule keywords it contains.
C1_ShipmentIdPrecedence ==
    HasShipmentId(question) =>
        /\ plan # Nothing => plan[1].operation = "DETAILS"
        /\ detected # Nothing =>
              /\ detected[1].returned = "QueryIntent"
              /\ detected[1].query_type = "shipment_details"

\* C2: a question that mentions a location-like token that does not resolve
\* gets a plan with invalid_location_mentioned = true, and execute answers
\* 'No data found.' with 0 records without running a query on the dataset,
\* also when another location of the question resolves.
C2_InvalidLocationShortCircuits ==
    UnresolvedMention(question) =>
        /\ plan # Nothing => plan[1].invalid_location_mentioned
        /\ out # Nothing =>
              /\ ~out[1].raised
              /\ out[1].response.text = NoDataText
              /\ out[1].records = 0
              /\ ~out[1].executed

\* C3: classification is total: every question, also one that matches no
\* keyword rule, gets a well-formed Intent from the intent detector and a valid
\* operation from the planner; no call ends without an Intent.
C3_ClassificationTotal ==
    /\ detected # Nothing =>
          /\ detected[1].returned = "QueryIntent"
          /\ detected[1].confidence \in 0..100
    /\ plan # Nothing => plan[1].operation \in VALID_OPERATIONS

\* C4: execute returns a well-formed response (response text, operation,
\* record count) for every operation the planner can emit, FILTER included,
\* and never propagates an exception to its caller.
C4_ExecuteReturnsByValue ==
    out # Nothing =>
        /\ ~out[1].raised
        /\ out[1].operation \in VALID_OPERATIONS
        /\ out[1].records \in Nat
        /\ out[1].response.text # ""

----------------------------------------------------------------------------
(* The executor state machine: one table, one set of filters, each operation *)

\* the largest table of the executor runs; above the 10-row preview
MaxRows == 12

DigitChars == <<"0", "1", "2", "3", "4", "5", "6", "7", "8", "9">>

RECURSIVE ZeroPad(_, _)
ZeroPad(n, width) ==
    IF width = 0 THEN "" ELSE ZeroPad(n \div 10, width - 1) \o DigitChars[(n % 10) + 1]

\* dataset.py: f"SHP-{i:07d}"
ShipmentIdOf(i) == "SHP-" \o ZeroPad(i, 7)

\* the kinds of row dataset.py produces: arrived early, arrived late, in
\* transit, arrived on the expected day; then a third SKU and destination,
\* late and in transit, and a late row of the first SKU
RowKinds == <<
    [source_location |-> "IN-DEL", destination_location |-> "US-LAX", departed_at |-> 1,
     expected_arrival |-> 5, arrived_at |-> 4, sku |-> "SKU-0001", quantity |-> 7],
    [source_location |-> "US-LAX", destination_location |-> "IN-DEL", departed_at |-> 1,
     expected_arrival |-> 5, arrived_at |-> 8, sku |-> "SKU-0002", quantity |-> 3],
    [source_location |-> "IN-DEL", destination_location |-> "US-LAX", departed_at |-> 2,
     expected_arrival |-> 9, arrived_at |-> NaT, sku |-> "SKU-0001", quantity |-> 5],
    [source_location |-> "IN-DEL", destination_location |-> "US-LAX", departed_at |-> 3,
     expected_arrival |-> 5, arrived_at |-> 5, sku |-> "SKU-0002", quantity |-> 2],
    [source_location |-> "IN-DEL", destination_location |-> "SG-SIN", departed_at |-> 1,
     expected_arrival |-> 4, arrived_at |-> 6, sku |-> "SKU-0003", quantity |-> 4],
    [source_location |-> "IN-DEL", destination_location |-> "SG-SIN", departed_at |-> 2,
     expected_arrival |-> 9, arrived_at |-> NaT, sku |-> "SKU-0003", quantity |-> 6],
    [source_location |-> "US-LAX", destination_location |-> "IN-DEL", departed_at |-> 1,
     expected_arrival |-> 4, arrived_at |-> 7, sku |-> "SKU-0001", quantity |-> 1] >>

\* the order in which the kinds repeat down a table
Patterns == {<<1, 2, 3, 4>>, <<1>>, <<2, 3>>, <<4, 4, 2>>, <<3>>}

\* row k of a table, as dataset.py writes it: ids count from 0, status follows
\* arrived_at
MakeRow(kind, k) ==
    [shipment_id |-> ShipmentIdOf(k - 1),
     source_location |-> RowKinds[kind].source_location,
     destination_location |-> RowKinds[kind].destination_location,
     departed_at |-> RowKinds[kind].departed_at,
     expected_arrival |-> RowKinds[kind].expected_arrival,
     arrived_at |-> RowKinds[kind].arrived_at,
     status |-> StatusOf(RowKinds[kind].arrived_at),
     sku |-> RowKinds[kind].sku,
     quantity |-> RowKinds[kind].quantity]

Tables == {[k \in 1..n |-> MakeRow(p[((k - 1) % Len(p)) + 1], k)] :
              n \in 0..MaxRows, p \in Patterns}

\* the values a filter may carry; DELAYED is a status the planner emits and no
\* row has
FilterValues == [shipment_id |-> {"SHP-0000001"},
                 source_location |-> {"IN-DEL"},
                 destination_location |-> {"US-LAX"},
                 status |-> {"ARRIVED", "DELAYED"},
                 sku |-> {"SKU-0002"}]

FilterSets ==
    UNION {{f \in [keys -> UNION {FilterValues[k] : k \in DOMAIN FilterValues}] :
               \A k \in keys : f[k] \in FilterValues[k]} :
           keys \in SUBSET DOMAIN FilterValues}

ClassIdle ==
    /\ question = ""
    /\ plan = Nothing
    /\ detected = Nothing
    /\ out = Nothing
    /\ parsed = Nothing

InitExec ==
    /\ self_df \in Tables
    /\ the_filters \in FilterSets
    /\ count_out = Nothing
    /\ filter_out = Nothing
    /\ metrics_out = Nothing
    /\ pipe_out = Nothing
    /\ details_out = Nothing
    /\ rank_out = Nothing
    /\ ClassIdle
    /\ EngineIdle
    /\ LoadIdle
    /\ LlmIdle

\* QueryExecutor(df).execute({'intent': 'COUNT', 'filters': filters})
ExecCount ==
    /\ count_out = Nothing
    /\ count_out' = Some(executor_execute(self_df, [intent |-> "COUNT", filters |-> the_filters]))
    /\ UNCHANGED <<self_df, the_filters, filter_out, metrics_out, pipe_out, details_out, rank_out, classVars, engineVars, loadVars, llmVars>>

\* QueryExecutor(df).execute({'intent': 'FILTER', 'filters': filters})
ExecFilter ==
    /\ filter_out = Nothing
    /\ filter_out' = Some(executor_execute(self_df, [intent |-> "FILTER", filters |-> the_filters]))
    /\ UNCHANGED <<self_df, the_filters, count_out, metrics_out, pipe_out, details_out, rank_out, classVars, engineVars, loadVars, llmVars>>

\* QueryExecutor(df).execute({'intent': 'METRICS', 'filters': filters})
ExecMetrics ==
    /\ metrics_out = Nothing
    /\ metrics_out' = Some(executor_execute(self_df, [intent |-> "METRICS", filters |-> the_filters]))
    /\ UNCHANGED <<self_df, the_filters, count_out, filter_out, pipe_out, details_out, rank_out, classVars, engineVars, loadVars, llmVars>>

\* HybridQueryPipeline(df)._execute_query_plan({'operation': 'METRICS', 'filters': filters})
PipelineMetrics ==
    /\ pipe_out = Nothing
    /\ pipe_out' = Some(execute_query_plan(self_df, [operation |-> "METRICS",
                                                     filters |-> the_filters]))
    /\ UNCHANGED <<self_df, the_filters, count_out, filter_out, metrics_out, details_out, rank_out, classVars, engineVars, loadVars, llmVars>>

\* QueryExecutor(df).execute({'intent': 'DETAILS', 'filters': filters})
ExecDetails ==
    /\ details_out = Nothing
    /\ details_out' = Some(executor_execute(self_df, [intent |-> "DETAILS", filters |-> the_filters]))
    /\ UNCHANGED <<self_df, the_filters, count_out, filter_out, metrics_out, pipe_out, rank_out, classVars, engineVars, loadVars, llmVars>>

NextExec == ExecCount \/ ExecFilter \/ ExecMetrics \/ PipelineMetrics \/ ExecDetails

SpecExec == InitExec /\ [][NextExec]_vars

\* the rows of the table that satisfy every filter
Matches(table, fs) == {k \in 1..Len(table) : \A f \in DOMAIN fs : table[k][f] = fs[f]}

\* C9: for every combination of filters, the record count COUNT reports equals
\* the number of rows FILTER matches with the same filters - the full match
\* set, of which FILTER's data is the first 10 rows - also when no row matches.
C9_CountEqualsFilterTotal ==
    (count_out # Nothing /\ filter_out # Nothing) =>
        /\ count_out[1].record_count = filter_out[1].record_count
        /\ filter_out[1].record_count = Cardinality(Matches(self_df, the_filters))
        /\ Len(filter_out[1].data) =
              (IF filter_out[1].record_count < FilterPreview
               THEN filter_out[1].record_count ELSE FilterPreview)

\* more rows match than the preview shows, and both operations have answered
C9_Witness ==
    /\ count_out # Nothing /\ filter_out # Nothing
    /\ Cardinality(Matches(self_df, the_filters)) > FilterPreview
    /\ count_out[1].record_count > Len(filter_out[1].data)

\* no row matches, and both operations have answered
C9_WitnessEmpty ==
    /\ count_out # Nothing /\ filter_out # Nothing
    /\ self_df # <<>>
    /\ Matches(self_df, the_filters) = {}

AbsDiff(a, b) == IF a >= b THEN a - b ELSE b - a

\* C10: when the filtered rows hold at least one ARRIVED row, METRICS reports
\* on_time_rate + delay_rate = 100.0 up to the 2-decimal rounding (rates in
\* hundredths of a percent), and every arrived row is counted as exactly one of
\* on-time or delayed.
C10_RatesSumToHundred ==
    /\ (metrics_out # Nothing
          /\ \E k \in Matches(self_df, the_filters) : self_df[k].status = "ARRIVED") =>
          /\ "metrics" \in DOMAIN metrics_out[1]
          /\ {"on_time_rate", "delay_rate"} \subseteq DOMAIN metrics_out[1].metrics
          /\ AbsDiff(metrics_out[1].metrics["on_time_rate"]
                       + metrics_out[1].metrics["delay_rate"], 10000) <= 1
    /\ (pipe_out # Nothing
          /\ \E k \in Matches(self_df, the_filters) : self_df[k].status = "ARRIVED") =>
          /\ AbsDiff(pipe_out[1].on_time_rate + pipe_out[1].delay_rate, 10000) <= 1
          /\ pipe_out[1].on_time_shipments + pipe_out[1].delayed_shipments
                = pipe_out[1].arrived_shipments

\* both METRICS implementations have answered for rows of which some arrived
\* early, some late and some on the expected day, with rates that round
C10_Witness ==
    /\ metrics_out # Nothing /\ pipe_out # Nothing
    /\ pipe_out[1].arrived_shipments = 3
    /\ pipe_out[1].on_time_shipments = 2
    /\ pipe_out[1].delayed_shipments = 1
    /\ metrics_out[1].metrics["on_time_rate"] = 6667
    /\ metrics_out[1].metrics["delay_rate"] = 3333

----------------------------------------------------------------------------
(* The analytics engine state machine: one process, its cache and its clock *)

\* the day the process starts, and how many days the clock may advance
FirstDay == 7
MaxTicks == 4

\* the limits a handler is called with
Limits == {1, DefaultLimit}

\* an arrived shipment, an in-transit one in another letter case, an unknown one
DetailIds == {"SHP-0000001", "shp-0000003", "SHP-9999999"}

InitEngine ==
    /\ csv_data = Nothing
    /\ now = FirstDay
    /\ first_details = Nothing
    /\ engine_out = Nothing
    /\ shipment_row = Nothing
    /\ shipment_summary = Nothing
    /\ risk_rendered = Nothing
    /\ ClassIdle
    /\ ExecIdle
    /\ LoadIdle
    /\ LlmIdle

\* a handler call: the cache keeps the frame the handler leaves; the call is
\* recorded with its time and whether it ran on the frame as loaded
Handle(id, run) ==
    /\ csv_data' = Some(run[1])
    /\ engine_out' = Some([id |-> id, at |-> now, as_loaded |-> run[1] = read_csv(Fixture),
                            result |-> run[2]])
    /\ UNCHANGED <<now, shipment_row, shipment_summary, risk_rendered,
                   classVars, execVars, loadVars, llmVars>>

GetSkuCount ==
    /\ Handle("", get_sku_count(csv_data, Fixture))
    /\ UNCHANGED first_details

GetTopRoutes ==
    /\ \E limit \in Limits : Handle("", get_top_routes(csv_data, Fixture, limit))
    /\ UNCHANGED first_details

GetDelayedShipments ==
    /\ \E limit \in Limits : Handle("", get_delayed_shipments(csv_data, Fixture, limit))
    /\ UNCHANGED first_details

GetSummaryStats ==
    /\ Handle("", get_summary_stats(csv_data, Fixture))
    /\ UNCHANGED first_details

GetSkuDelayAnalysis ==
    /\ \E limit \in Limits : Handle("", get_sku_delay_analysis(csv_data, Fixture, limit))
    /\ UNCHANGED first_details

GetShipmentDetails ==
    \E id \in DetailIds :
        /\ Handle(id, get_shipment_details(csv_data, Fixture, id, now))
        /\ first_details' = IF first_details = Nothing THEN engine_out' ELSE first_details

\* time passes between two requests
Tick ==
    /\ now < FirstDay + MaxTicks
    /\ now' = now + 1
    /\ UNCHANGED <<csv_data, first_details, engine_out, shipment_row, shipment_summary,
                   risk_rendered, classVars, execVars, loadVars, llmVars>>

NextEngine ==
    \/ GetSkuCount \/ GetTopRoutes \/ GetDelayedShipments \/ GetSummaryStats
    \/ GetSkuDelayAnalysis \/ GetShipmentDetails \/ Tick

SpecEngine == InitEngine /\ [][NextEngine]_vars

\* the latest call is a get_shipment_details call for the id of the first one
DetailsAgain ==
    /\ first_details # Nothing
    /\ engine_out # Nothing
    /\ engine_out[1].result.query_type = "shipment_details"
    /\ engine_out[1].id = first_details[1].id

\* C5: no handler mutates the cached frame - it keeps the columns and values
\* it had right after loading - so get_shipment_details for a given id at a
\* given time returns the same result whichever handlers ran before it.
C5_CacheIsReadOnly ==
    /\ csv_data # Nothing => csv_data[1] = read_csv(Fixture)
    /\ (DetailsAgain /\ engine_out[1].at = first_details[1].at)
          => engine_out[1].result = first_details[1].result

\* C7: executing the identical question twice against an unchanged dataset
\* yields identical results, also get_shipment_details for an in-transit
\* shipment, however much time passes between the two calls.
C7_DetailsIdempotentOverTime ==
    (DetailsAgain /\ engine_out[1].as_loaded /\ first_details[1].as_loaded)
        => engine_out[1].result = first_details[1].result

----------------------------------------------------------------------------
(* Lazy loading: load_csv (query_engine.py) and load_data                   *)
(* (smart_query_engine.py), step by step, for callers that may interleave   *)

\* how many callers issue a first request
NumCallers == 3

Callers == 1..NumCallers

\* the modules of one backend process that keep their own _csv_data
LoaderModules == {"query_engine", "smart_query_engine"}

\* pd.DataFrame(): what a failed load returns
EmptyFrame == Frame(<<>>, <<>>)

InitLoad ==
    /\ module_cache = [m \in LoaderModules |-> Nothing]
    /\ file_state \in {"ok", "missing", "unreadable"}
    /\ load_pc = [c \in Callers |-> [at |-> "idle", module |-> ""]]
    /\ load_got = [c \in Callers |-> Nothing]
    /\ parses = 0
    /\ ClassIdle
    /\ ExecIdle
    /\ EngineIdle
    /\ LlmIdle

\* `if _csv_data is not None: return _csv_data`
LoadCheck(c) ==
    /\ load_pc[c].at = "idle"
    /\ \E m \in LoaderModules :
          IF module_cache[m] # Nothing
          THEN /\ load_pc' = [load_pc EXCEPT ![c] = [at |-> "done", module |-> m]]
               /\ load_got' = [load_got EXCEPT ![c] = module_cache[m]]
          ELSE /\ load_pc' = [load_pc EXCEPT ![c] = [at |-> "find", module |-> m]]
               /\ UNCHANGED load_got
    /\ UNCHANGED <<module_cache, file_state, parses, classVars, execVars, engineVars, llmVars>>

\* find_csv / os.path.exists: no file, an empty frame is returned and nothing cached
LoadFind(c) ==
    /\ load_pc[c].at = "find"
    /\ IF file_state = "missing"
       THEN /\ load_pc' = [load_pc EXCEPT ![c].at = "done"]
            /\ load_got' = [load_got EXCEPT ![c] = Some(EmptyFrame)]
       ELSE /\ load_pc' = [load_pc EXCEPT ![c].at = "read"]
            /\ UNCHANGED load_got
    /\ UNCHANGED <<module_cache, file_state, parses, classVars, execVars, engineVars, llmVars>>

\* `_csv_data = pd.read_csv(csv_path)`; an exception leaves the cache empty
LoadRead(c) ==
    /\ load_pc[c].at = "read"
    /\ parses' = parses + 1
    /\ load_pc' = [load_pc EXCEPT ![c].at = "done"]
    /\ IF file_state = "ok"
       THEN /\ module_cache' = [module_cache EXCEPT
                                   ![load_pc[c].module] = Some(read_csv(Fixture))]
            /\ load_got' = [load_got EXCEPT ![c] = Some(read_csv(Fixture))]
       ELSE /\ load_got' = [load_got EXCEPT ![c] = Some(EmptyFrame)]
            /\ UNCHANGED module_cache
    /\ UNCHANGED <<file_state, classVars, execVars, engineVars, llmVars>>

NextLoad == \E c \in Callers : LoadCheck(c) \/ LoadFind(c) \/ LoadRead(c)

SpecLoad == InitLoad /\ [][NextLoad]_vars

\* C6: under every interleaving of concurrent first requests the source file
\* is read and parsed at most once per process.
C6_FileParsedAtMostOnce == parses <= 1

----------------------------------------------------------------------------
(* The phrasing step: backend/copilot_backend.py generate_insights, the      *)
(* providers (ai_providers_groq.py, ai_providers_openai.py) and the          *)
(* deterministic formatter generate_expert_fallback_from_query               *)

\* a response text: its wording, the strings and the numbers it interpolates
Reply(text, parts, args) == [text |-> text, parts |-> parts, args |-> args]

\* what the provider's endpoint does with a request: an HTTP status or an
\* exception raised by the client library, with its message
Status(code) == [kind |-> "status", code |-> code, error_msg |-> ""]
Raised(error_msg) == [kind |-> "exception", code |-> 0, error_msg |-> error_msg]

ProviderOutcomes ==
    {Status(code) : code \in {200, 401, 429, 500}}
    \cup {Raised(m) : m \in {"401 Client Error: Unauthorized", "429 Too Many Requests",
                             "Connection timed out", "insufficient_quota"}}

\* the provider did not deliver a completion
ProviderFailed(outcome) == ~(outcome.kind = "status" /\ outcome.code = 200)

\* the completion text of a 200 answer
Completion == Reply("<completion>", <<>>, <<>>)

call_groq_api(api_key, outcome) ==
    IF api_key = "" THEN Reply("Groq API is not configured.", <<>>, <<>>)
    ELSE IF outcome.kind = "status"
    THEN IF outcome.code = 200 THEN Completion
         ELSE Reply("Groq API temporarily unavailable. Please check your API key and try again.",
                    <<>>, <<>>)
    ELSE IF Contains(outcome.error_msg, "401")
            \/ Contains(Lower(outcome.error_msg), "unauthorized")
    THEN Reply("Groq authentication failed. Please verify your API key.", <<>>, <<>>)
    ELSE IF Contains(outcome.error_msg, "429") \/ Contains(Lower(outcome.error_msg), "rate")
    THEN Reply("Groq rate limit exceeded. Please try again later.", <<>>, <<>>)
    ELSE Reply("Groq API is currently unavailable. Please try again later.", <<>>, <<>>)

\* the OpenAI client raises on every status but 200
call_openai_api(api_key, outcome) ==
    LET error_msg == IF outcome.kind = "status"
                     THEN "Error code: " \o ZeroPad(outcome.code, 3) ELSE outcome.error_msg
    IN IF api_key = "" THEN Reply("OpenAI API is not configured.", <<>>, <<>>)
       ELSE IF outcome.kind = "status" /\ outcome.code = 200 THEN Completion
       ELSE IF Contains(error_msg, "429") \/ Contains(Lower(error_msg), "quota")
       THEN Reply("OpenAI quota has been exceeded.", <<>>, <<>>)
       ELSE IF Contains(error_msg, "401") \/ Contains(Lower(error_msg), "unauthorized")
       THEN Reply("OpenAI authentication failed. Please verify your API key.", <<>>, <<>>)
       ELSE Reply("OpenAI API is currently unavailable. Please try again later.", <<>>, <<>>)

\* ConfigManager.is_configured
is_configured(config) == config.openai_api_key # "" \/ config.grok_api_key # ""

\* ConversationSession.add_message
add_message(messages, role, content) == Append(messages, [role |-> role, content |-> content])

\* the risk wording of the formatter: HIGH above 0.7, MEDIUM above 0.4
FallbackRiskLevel(risk_score) ==
    IF risk_score > 70 THEN "HIGH" ELSE IF risk_score > 40 THEN "MEDIUM" ELSE "LOW"

OrZero(optional) == IF optional = Nothing THEN 0 ELSE optional[1]

\* the keys of a result dictionary in insertion order, for the first-five cut
ResultKeys(query_type) ==
    CASE query_type = "summary_stats" ->
            <<"total_shipments", "arrived_count", "in_transit_count", "delayed_count",
              "on_time_rate_pct", "delay_rate_pct", "unique_skus", "unique_routes">>
      [] query_type = "top_routes" -> <<"total_routes">>
      [] query_type = "sku_count" -> <<"total_skus">>
      [] query_type = "delayed_shipments" -> <<"total_delayed">>
      [] query_type = "sku_delay_analysis" -> <<"total_skus_analyzed">>
      [] OTHER -> <<>>

MetricsPreview == 5

\* generate_expert_fallback_from_query: the template answer
generate_expert_fallback_from_query(intent, query_result, messages, user_query) ==
    LET has_data == query_result.data # Nothing /\ query_result.data[1] # <<>>
        is_followup == user_query # "" /\ Len(user_query) < 50 /\ Len(messages) > 2
        query_lower == Lower(user_query)
        data == query_result.data[1][1]
        full == Reply("**{}** - {} / {} ({} units) | {} / Shipped: {} | Expected: {} / {} / Risk: {} / Next Steps: {}",
                      <<data.shipment_id, data.status.text, data.sku, data.route,
                        IF data.actual_arrival # Nothing THEN "Delivered" ELSE "In Transit",
                        FallbackRiskLevel(data.risk_score), data.recommendations[1]>>,
                      data.status.args
                        \o <<data.quantity>> \o data.shipped_date \o data.expected_arrival
                        \o (IF data.actual_arrival # Nothing
                            THEN data.actual_arrival \o data.transit_days
                            ELSE <<OrZero(data.delay_days)>>))
        keys == HeadRows(ResultKeys(query_result.query_type), MetricsPreview)
    IN IF intent.returned = "None" THEN Reply("Service temporarily unavailable.", <<>>, <<>>)
       ELSE IF intent.query_type = "shipment_details" /\ has_data
       THEN IF is_followup /\ Contains(query_lower, "source") THEN Reply("Unknown", <<>>, <<>>)
            ELSE IF is_followup /\ Contains(query_lower, "dest") THEN Reply("Unknown", <<>>, <<>>)
            ELSE IF is_followup /\ Contains(query_lower, "risk")
            THEN Reply("{}", <<FallbackRiskLevel(data.risk_score)>>, <<>>)
            ELSE IF is_followup /\ Contains(query_lower, "sku")
            THEN Reply("{} ({} units)", <<data.sku>>, <<data.quantity>>)
            ELSE IF is_followup /\ Contains(query_lower, "status")
            THEN Reply("{}", <<data.status.text>>, data.status.args)
            ELSE IF is_followup /\ Contains(query_lower, "delay")
            THEN IF OrZero(data.delay_days) > 0
                 THEN Reply("{} days overdue", <<>>, <<OrZero(data.delay_days)>>)
                 ELSE Reply("On schedule", <<>>, <<>>)
            ELSE IF is_followup /\ (Contains(query_lower, "date") \/ Contains(query_lower, "arrival"))
            THEN Reply("Expected: {} | Shipped: {}", <<>>,
                       data.expected_arrival \o data.shipped_date)
            ELSE full
       ELSE IF has_data
       THEN Reply("**{}** / metrics", <<query_result.summary.text>>,
                  query_result.summary.args
                    \o [k \in 1..Len(keys) |-> query_result.result[1][keys[k]]])
       ELSE Reply("{}", <<query_result.summary.text>>, query_result.summary.args)

\* generate_insights: <<the text returned, the session's messages afterwards>>
generate_insights(user_query, intent, query_result, messages, config, outcome) ==
    IF ~is_configured(config)
    THEN <<generate_expert_fallback_from_query(intent, query_result, messages, user_query),
           messages>>
    ELSE LET response == IF config.use_grok
                         THEN call_groq_api(config.grok_api_key, outcome)
                         ELSE call_openai_api(config.openai_api_key, outcome)
         IN <<response,
              add_message(add_message(messages, "user", Reply(user_query, <<>>, <<>>)),
                          "assistant", response)>>

----------------------------------------------------------------------------
(* The phrasing state machine: one session, one request after another *)

\* requests are made while the session holds at most this many messages
MaxHistory == 2

Configs == [openai_api_key : {"", "sk-key"}, grok_api_key : {"", "gsk-key"},
            use_grok : BOOLEAN]

\* a request: the question, its intent and the query result already computed
Requests ==
    {[user_query |-> "Track shp-0000003",
      intent |-> QueryIntent("shipment_details", 95),
      query_result |-> get_shipment_details(Nothing, Fixture, "shp-0000003", FirstDay)[2]],
     [user_query |-> "risk?",
      intent |-> QueryIntent("shipment_details", 95),
      query_result |-> get_shipment_details(Nothing, Fixture, "SHP-0000001", FirstDay)[2]],
     [user_query |-> "top routes",
      intent |-> QueryIntent("top_routes", 90),
      query_result |-> get_top_routes(Nothing, Fixture, DefaultLimit)[2]],
     [user_query |-> "how many sku",
      intent |-> QueryIntent("sku_count", 95),
      query_result |-> get_sku_count(Nothing, Fixture)[2]]}

InitLlm ==
    /\ config_manager \in Configs
    /\ session_messages = <<>>
    /\ insight = Nothing
    /\ sessions = <<>>
    /\ chat_reply = Nothing
    /\ ClassIdle
    /\ ExecIdle
    /\ EngineIdle
    /\ LoadIdle

\* generate_insights(user_query, intent, query_result, session) while the
\* provider's endpoint behaves as `outcome`
GenerateInsights ==
    /\ Len(session_messages) <= MaxHistory
    /\ \E req \in Requests, outcome \in ProviderOutcomes :
          LET got == generate_insights(req.user_query, req.intent, req.query_result,
                                       session_messages, config_manager, outcome)
          IN /\ session_messages' = got[2]
             /\ insight' = Some([request |-> req, outcome |-> outcome,
                                 messages |-> session_messages, response |-> got[1]])
    /\ UNCHANGED <<config_manager, sessions, chat_reply, classVars, execVars, engineVars,
                   loadVars>>

NextLlm == GenerateInsights

SpecLlm == InitLlm /\ [][NextLlm]_vars

\* the configured provider was called and did not deliver a completion
ProviderCallFailed ==
    /\ insight # Nothing
    /\ (IF config_manager.use_grok THEN config_manager.grok_api_key
        ELSE config_manager.openai_api_key) # ""
    /\ ProviderFailed(insight[1].outcome)

\* C8: when the call to the language model fails (network error, non-200
\* status, authentication or quota error) the text returned is the template
\* answer built from the already-computed query result, never the provider's
\* failure message.
C8_FailureFallsBackToTemplate ==
    ProviderCallFailed =>
        insight[1].response =
            generate_expert_fallback_from_query(insight[1].request.intent,
                insight[1].request.query_result, insight[1].messages,
                insight[1].request.user_query)

----------------------------------------------------------------------------
(* METRICS over rows of which none has arrived *)

\* rows match the filters and none of them has status ARRIVED
NoneArrived ==
    /\ Matches(self_df, the_filters) # {}
    /\ \A k \in Matches(self_df, the_filters) : self_df[k].status # "ARRIVED"

\* C11: when the filtered rows are non-empty and hold no ARRIVED row, METRICS
\* marks the rates as 'no data': it asserts no on-time or delay rate of 0%,
\* neither as a metric value nor in the summary text.
C11_NoArrivedIsNoData ==
    /\ (metrics_out # Nothing /\ NoneArrived) =>
          /\ "on_time_rate" \notin DOMAIN metrics_out[1].metrics
          /\ "delay_rate" \notin DOMAIN metrics_out[1].metrics
          /\ ~(/\ Contains(metrics_out[1].summary[1], "On-time rate: {}%")
               /\ metrics_out[1].summary[3] = 0)
    /\ (pipe_out # Nothing /\ NoneArrived) =>
          ~(pipe_out[1].on_time_rate = 0 /\ pipe_out[1].delay_rate = 0)

----------------------------------------------------------------------------
(* DETAILS for a shipment id that no row carries *)

\* the filters name a well-formed shipment id and no row matches them
ShipmentAbsent ==
    /\ "shipment_id" \in DOMAIN the_filters
    /\ self_df # <<>>
    /\ Matches(self_df, the_filters) = {}

\* C12: a DETAILS query for a well-formed shipment id absent from the dataset
\* returns zero records, no data, and an explicit 'not found' error; it is not
\* an empty success.
C12_AbsentShipmentIsError ==
    (details_out # Nothing /\ ShipmentAbsent) =>
        /\ details_out[1].record_count = 0
        /\ details_out[1].data = <<>>
        /\ "error" \in DOMAIN details_out[1]

----------------------------------------------------------------------------
(* backend/query_parser.py : QueryParser *)

\* QueryParser.LOCATION_ALIASES, in the order the dictionary lists them
LOCATION_ALIASES == <<
    <<"lax", "US-LAX">>, <<"los angeles", "US-LAX">>,
    <<"shz", "CN-SHZ">>, <<"shenzhen", "CN-SHZ">>,
    <<"bkk", "TH-BKK">>, <<"bangkok", "TH-BKK">>,
    <<"lon", "UK-LON">>, <<"london", "UK-LON">>,
    <<"fra", "DE-FRA">>, <<"frankfurt", "DE-FRA">>,
    <<"sin", "SG-SIN">>, <<"singapore", "SG-SIN">>,
    <<"del", "IN-DEL">>, <<"delhi", "IN-DEL">>,
    <<"mum", "IN-MUM">>, <<"mumbai", "IN-MUM">> >>

\* QueryParser.LOCATIONS
LOCATIONS == {"US-LAX", "CN-SHZ", "TH-BKK", "UK-LON", "DE-FRA", "SG-SIN", "IN-DEL", "IN-MUM"}

\* _detect_intent: the rules in the order the code tests them
parser_detect_intent(q) ==
    IF Contains(q, "shp-") THEN "DETAILS"
    ELSE IF AnyIn(q, {"most delays", "most problematic", "worst", "best route", "top",
                      "highest", "lowest", "problematic"}) THEN "TOP_K"
    ELSE IF AnyIn(q, {"rate", "percentage", "%", "average", "avg", "mean", "on-time",
                      "delivery", "performance"}) THEN "METRICS"
    ELSE IF AnyIn(q, {"unique", "distinct", "how many unique", "count unique",
                      "how many routes"}) THEN "UNIQUE_COUNT"
    ELSE IF AnyIn(q, {"how many", "count", "total"}) THEN "COUNT"
    ELSE "FILTER"

\* the shipment_id and sku entries both filter extractors build: re.search on
\* the lower-cased question, the match upper-cased
parser_id_and_sku(q) ==
    LET ids == {i \in 1..Len(q) : ShipmentIdAt(q, i)}
        skus == {i \in 1..Len(q) : SkuAt(q, i)}
        id_part == IF ids = {} THEN <<>>
                   ELSE "shipment_id" :> Upper(SubSeq(q, MinOf(ids), MinOf(ids) + 10))
        sku_part == IF skus = {} THEN <<>>
                    ELSE "sku" :> Upper(SubSeq(q, MinOf(skus),
                                               RunEnd(q, MinOf(skus) + 4, Digits)))
    IN id_part @@ sku_part

\* _extract_specific_filters
parser_extract_specific_filters(q) == parser_id_and_sku(q)

\* _extract_location: the first alias of the dictionary that occurs anywhere in
\* the question; the full codes are looked for only when no alias occurs, and
\* every full code ends in one of the aliases
parser_extract_location(q) ==
    LET hits == {k \in 1..Len(LOCATION_ALIASES) : Contains(q, LOCATION_ALIASES[k][1])}
        codes == {loc \in LOCATIONS : Contains(q, Lower(loc))}
    IN IF hits # {} THEN LOCATION_ALIASES[MinOf(hits)][2]
       ELSE IF codes # {} THEN CHOOSE loc \in codes : TRUE
       ELSE None

\* _is_source: 'from' occurs before the first 'location' of the question
parser_is_source(q) ==
    LET at == {i \in 1..Len(q) : MatchAt(q, i, "location")}
    IN at # {} /\ Contains(SubSeq(q, 1, MinOf(at) - 1), "from")

\* _extract_status of the parser
parser_extract_status(q) ==
    IF Contains(q, "arrived") \/ Contains(q, "delivered") THEN "ARRIVED"
    ELSE IF Contains(q, "transit") \/ Contains(q, "in-transit") THEN "IN_TRANSIT"
    ELSE IF Contains(q, "delayed") \/ Contains(q, "delay") \/ Contains(q, "late") THEN "DELAYED"
    ELSE None

\* _extract_filters: entries whose value is None are dropped
parser_extract_filters(q) ==
    LET location == parser_extract_location(q)
        loc_part == IF location = None THEN <<>>
                    ELSE IF Contains(q, "from") /\ Contains(q, "to")
                         THEN (IF parser_is_source(q) THEN "source_location" :> location
                               ELSE "destination_location" :> location)
                    ELSE IF Contains(q, "from") THEN "source_location" :> location
                    ELSE "destination_location" :> location
        status == parser_extract_status(q)
        status_part == IF status = None THEN <<>> ELSE "status" :> status
    IN parser_id_and_sku(q) @@ loc_part @@ status_part

\* _extract_group_by
parser_extract_group_by(q) ==
    LET by_sku == IF \/ Contains(q, "by sku") \/ Contains(q, "per sku")
                     \/ (Contains(q, "sku") /\ Contains(q, "problematic"))
                  THEN <<"sku">> ELSE <<>>
        by_route == IF \/ Contains(q, "by route") \/ Contains(q, "per route")
                       \/ (Contains(q, "routes") /\ Contains(q, "delay"))
                    THEN <<"source_location", "destination_location">> ELSE <<>>
        by_location == IF Contains(q, "by location") \/ Contains(q, "per location")
                       THEN <<"destination_location">> ELSE <<>>
        by_status == IF Contains(q, "by status") \/ Contains(q, "per status")
                     THEN <<"status">> ELSE <<>>
        group_by == by_sku \o by_route \o by_location \o by_status
    IN IF group_by # <<>> THEN group_by
       ELSE IF Contains(q, "sku") /\ Contains(q, "problematic") THEN <<"sku">>
       ELSE <<"destination_location">>

\* _extract_metrics
parser_extract_metrics(q, intent) ==
    LET rates == (IF Contains(q, "delay") /\ Contains(q, "rate") THEN <<"delay_rate">> ELSE <<>>)
                 \o (IF AnyIn(q, {"on-time", "ontime", "on time"}) THEN <<"on_time_rate">> ELSE <<>>)
                 \o (IF AnyIn(q, {"average", "avg"}) /\ Contains(q, "delay")
                     THEN <<"avg_delay_days">> ELSE <<>>)
        of_intent == IF intent # "METRICS" THEN <<>>
                     ELSE IF rates = <<>> THEN <<"on_time_rate", "delay_rate">> ELSE rates
    IN of_intent
       \o (IF Contains(q, "count") THEN <<"count">> ELSE <<>>)
       \o (IF Contains(q, "total") /\ Contains(q, "units") THEN <<"total_quantity">> ELSE <<>>)

\* _extract_top_k: re.search(r'(?:top|best|worst|first)\s+(\d+)', q), else 10
\* for 'most' / 'worst', else None
parser_extract_top_k(q) ==
    LET kws == {"top", "best", "worst", "first"}
        hits == {i \in 1..Len(q) : \E kw \in kws : LimitAt(q, i, kw)}
    IN IF hits # {}
       THEN LET i == MinOf(hits)
                kw == CHOOSE k \in kws : LimitAt(q, i, k)
                a == RunEnd(q, i + Len(kw), {Space}) + 1
            IN Some(ParseInt(SubSeq(q, a, RunEnd(q, a, Digits)), 0))
       ELSE IF Contains(q, "most") \/ Contains(q, "worst") THEN Some(10)
       ELSE Nothing

\* QueryParser.parse
parse(user_question) ==
    LET q == Strip(Lower(user_question))
        intent == parser_detect_intent(q)
    IN [intent |-> intent,
        filters |-> IF intent \in {"METRICS", "TOP_K"}
                    THEN parser_extract_specific_filters(q)
                    ELSE parser_extract_filters(q),
        group_by |-> parser_extract_group_by(q),
        metrics |-> parser_extract_metrics(q, intent),
        top_k |-> parser_extract_top_k(q)]

----------------------------------------------------------------------------
(* smart_query_engine.py : intent detection by keywords and the grouped      *)
(* shipment counts                                                           *)

\* detect_sort_order
detect_sort_order(query) ==
    IF AnyIn(Lower(query), {"least", "lowest", "minimum", "fewest", "less", "smallest",
                            "bottom", "slowest", "worst"})
    THEN "ascending" ELSE "descending"

\* detect_aggregation_dimension: the SKU rule needs a delay/problem word too
detect_aggregation_dimension(query) ==
    LET query_lower == Lower(query)
    IN IF AnyIn(query_lower, {"destination", "shipments to", "orders to",
                              "which destination", "ship to", "shipped to"})
       THEN "destination"
       ELSE IF AnyIn(query_lower, {"source", "shipments from", "orders from",
                                   "which source", "ship from", "shipped from"})
       THEN "source"
       ELSE IF /\ AnyIn(query_lower, {"sku", "product", "items", "what sku", "which sku",
                                      "product code"})
               /\ AnyIn(query_lower, {"delay", "slow", "problem", "issue", "performance"})
       THEN "sku"
       ELSE IF AnyIn(query_lower, {"route", "corridor", "path", "lane", "connection"})
       THEN "route"
       ELSE IF AnyIn(query_lower, {"status", "arrived", "transit", "delayed", "on_time"})
       THEN "status"
       ELSE "none"

\* the characters \w of a regular expression
WordChars == Letters \cup {UpperChar(c) : c \in Letters} \cup Digits \cup {"_"}

\* \b(\d+)\b matches at position i: a maximal run of digits with no word
\* character on either side
NumberAt(t, i) ==
    /\ i <= Len(t) /\ CharAt(t, i) \in Digits
    /\ (i = 1 \/ CharAt(t, i - 1) \notin WordChars)
    /\ (RunEnd(t, i, Digits) = Len(t) \/ CharAt(t, RunEnd(t, i, Digits) + 1) \notin WordChars)

\* parse_limit: the first number of the question when it is in 1..100, else 10
parse_limit(query) ==
    LET hits == {i \in 1..Len(query) : NumberAt(query, i)}
        first == ParseInt(SubSeq(query, MinOf(hits), RunEnd(query, MinOf(hits), Digits)), 0)
    IN IF hits # {} /\ first >= 1 /\ first <= 100 THEN first ELSE 10

\* smart_parse_intent; confidence in hundredths
smart_parse_intent(user_query) ==
    [aggregation |-> detect_aggregation_dimension(user_query),
     sort_order |-> detect_sort_order(user_query),
     limit |-> parse_limit(user_query),
     confidence |-> IF detect_aggregation_dimension(user_query) # "none" THEN 95 ELSE 50,
     raw_query |-> user_query]

\* groupby(group_by).agg(count, sum of quantity), then
\* sort_values('shipment_count', ascending=...); ties stay in key order
SmartCounts(df, group_by, sort_order) ==
    LET keys == GroupKeys(df, group_by)
        counted[i \in 0..Len(keys)] ==
            IF i = 0 THEN <<>>
            ELSE LET rows == GroupRows(df, group_by, keys[i])
                 IN Append(counted[i - 1],
                           [key |-> keys[i], shipment_count |-> Len(rows),
                            total_quantity |-> SumOf(Column(rows, "quantity"))])
        all == counted[Len(keys)]
    IN NLargest(all, Len(all), IF sort_order = "ascending"
                               THEN Negated(Column(all, "shipment_count"))
                               ELSE Column(all, "shipment_count"))

\* the result dictionary the query_by_* functions share
SmartResult(counts, data, intent, aggregation, noun) ==
    [success |-> TRUE, data |-> data,
     summary |-> <<noun \o " with {} shipments (top {})",
                   IF intent.sort_order = "ascending" THEN "fewest" ELSE "most",
                   intent.limit>>,
     aggregation |-> aggregation, sort_order |-> intent.sort_order,
     total_unique |-> Len(counts)]

query_by_destination(df, intent) ==
    LET counts == SmartCounts(df, <<"destination_location">>, intent.sort_order)
    IN SmartResult(counts, HeadRows(counts, intent.limit), intent, "destination", "Destinations")

query_by_source(df, intent) ==
    LET counts == SmartCounts(df, <<"source_location">>, intent.sort_order)
    IN SmartResult(counts, HeadRows(counts, intent.limit), intent, "source", "Sources")

query_by_sku(df, intent) ==
    LET counts == SmartCounts(df, <<"sku">>, intent.sort_order)
    IN SmartResult(counts, HeadRows(counts, intent.limit), intent, "sku", "SKUs")

query_by_route(df, intent) ==
    LET counts == SmartCounts(df, <<"source_location", "destination_location">>,
                              intent.sort_order)
    IN SmartResult(counts, HeadRows(counts, intent.limit), intent, "route", "Routes")

\* query_by_status returns every status, whatever the limit
query_by_status(df, intent) ==
    LET counts == SmartCounts(df, <<"status">>, intent.sort_order)
    IN [success |-> TRUE, data |-> counts,
        summary |-> <<"Shipment status distribution ({} to {})",
                      IF intent.sort_order = "ascending" THEN "fewest" ELSE "most",
                      "fewest">>,
        aggregation |-> "status", sort_order |-> intent.sort_order]

\* execute_smart_query on the loaded table
execute_smart_query(df, intent) ==
    IF df = <<>>
    THEN [success |-> FALSE, data |-> <<>>, summary |-> <<"No data available">>,
          error |-> "CSV not loaded"]
    ELSE CASE intent.aggregation = "destination" -> query_by_destination(df, intent)
           [] intent.aggregation = "source" -> query_by_source(df, intent)
           [] intent.aggregation = "sku" -> query_by_sku(df, intent)
           [] intent.aggregation = "route" -> query_by_route(df, intent)
           [] intent.aggregation = "status" -> query_by_status(df, intent)
           [] OTHER -> [success |-> FALSE, data |-> <<>>,
                        summary |-> <<"Could not determine query intent">>,
                        error |-> "Unknown aggregation type"]

----------------------------------------------------------------------------
(* The ranking state machine: a question, a table, and the modules that can  *)
(* answer the question with a ranking                                        *)

\* the order in which the kinds of row repeat down a ranking table
RankPatterns == {<<1, 2, 3, 4, 5, 6>>, <<5, 6, 2>>, <<2, 5, 5, 6, 1>>, <<3, 6>>,
                 <<7, 3, 2, 5, 6, 6>>}

RankTables == {[k \in 1..n |-> MakeRow(p[((k - 1) % Len(p)) + 1], k)] :
                  n \in 0..MaxRows, p \in RankPatterns}

\* ranking questions: by delay and by shipment count, with and without a
\* limit, asking for the most and for the fewest
RankQuestions == {"top 1 problematic skus", "top 2 problematic skus",
                  "Top 3 problematic SKUs", "lowest delay rate by sku",
                  "worst routes by delay", "top 1 destinations", "top 2 destinations",
                  "show me the top 3 SKUs with the fewest orders",
                  "show me the 5 SKUs with fewest orders",
                  "which 3 destinations have the least shipments",
                  "most popular routes", "top 500 problematic skus",
                  "which destination has less shipment"}

InitRank ==
    /\ question \in RankQuestions
    /\ self_df \in RankTables
    /\ the_filters = <<>>
    /\ plan = Nothing /\ detected = Nothing /\ out = Nothing /\ parsed = Nothing
    /\ count_out = Nothing /\ filter_out = Nothing /\ metrics_out = Nothing
    /\ pipe_out = Nothing /\ details_out = Nothing
    /\ rank_out = Nothing
    /\ EngineIdle
    /\ LoadIdle
    /\ LlmIdle

rankFrame == <<question, self_df, the_filters, plan, detected, out, parsed, count_out, filter_out,
               metrics_out, pipe_out, details_out, engineVars, loadVars, llmVars>>

\* QueryExecutor(df).execute(QueryParser().parse(question)) for a TOP_K question
TopKByParser ==
    /\ rank_out = Nothing
    /\ parse(question).intent = "TOP_K"
    /\ rank_out' = Some([via |-> "query_executor", request |-> parse(question),
                         result |-> executor_execute(self_df, parse(question))])
    /\ UNCHANGED rankFrame

\* HybridQueryPipeline(df)._execute_query_plan(plan_query(question)) for an
\* ANALYTICS question
AnalyticsByPlanner ==
    /\ rank_out = Nothing
    /\ plan_query(question).operation = "ANALYTICS"
    /\ rank_out' = Some([via |-> "hybrid_pipeline", request |-> plan_query(question),
                         result |-> execute_query_plan(self_df, plan_query(question))])
    /\ UNCHANGED rankFrame

\* execute_query(intent.query_type, limit=intent.limit) for a question that
\* detect_intent classifies as sku_delay_analysis
SkuDelayByIntent ==
    /\ rank_out = Nothing
    /\ detect_intent(question) # NoIntent
    /\ detect_intent(question).query_type = "sku_delay_analysis"
    /\ rank_out' = Some([via |-> "query_engine", request |-> detect_intent(question),
                         result |-> get_sku_delay_analysis(Nothing, self_df,
                                        detect_intent(question).limit)[2]])
    /\ UNCHANGED rankFrame

\* execute_smart_query(smart_parse_intent(question))
SmartQuery ==
    /\ rank_out = Nothing
    /\ rank_out' = Some([via |-> "smart_query_engine", request |-> smart_parse_intent(question),
                         result |-> execute_smart_query(self_df, smart_parse_intent(question))])
    /\ UNCHANGED rankFrame

NextRank == TopKByParser \/ AnalyticsByPlanner \/ SkuDelayByIntent \/ SmartQuery

SpecRank == InitRank /\ [][NextRank]_vars

----------------------------------------------------------------------------
(* Ranking properties *)

\* the delay rate of a group as METRICS computes it: arrived rows that came
\* after expected_arrival over arrived rows, in hundredths of a percent
MetricsDelayRate(rows) ==
    Round2Pct(Cardinality(LateRows(rows)), Cardinality(ArrivedRows(rows)))

\* the executor has answered a TOP_K question over a non-empty row set
RankedByExecutor ==
    /\ rank_out # Nothing
    /\ rank_out[1].via = "query_executor"
    /\ rank_out[1].result.intent = "TOP_K"
    /\ "group_by" \in DOMAIN rank_out[1].result

\* query_engine has answered with a SKU delay ranking
RankedByEngine ==
    /\ rank_out # Nothing
    /\ rank_out[1].via = "query_engine"
    /\ rank_out[1].result.data # Nothing

\* C13: in a TOP_K / ANALYTICS ranking each group's delay rate is the group's
\* arrived rows with arrived_at later than expected_arrival divided by the
\* group's arrived rows; in-transit rows are not in the denominator.
C13_GroupRateOverArrivedOnly ==
    /\ RankedByExecutor =>
          \A n \in 1..Len(rank_out[1].result.data) :
             LET row == rank_out[1].result.data[n]
                 group == GroupRows(apply_filters(self_df, rank_out[1].request.filters),
                                    rank_out[1].result.group_by, row.key)
             IN ArrivedRows(group) # {} => row.delay_rate = MetricsDelayRate(group)
    /\ RankedByEngine =>
          \A n \in 1..Len(rank_out[1].result.data[1]) :
             LET row == rank_out[1].result.data[1][n]
                 group == FilterEq(self_df, "sku", row.sku)
             IN ArrivedRows(group) # {} =>
                   Round2Pct(row.delayed, row.shipment_count) = MetricsDelayRate(group)
\* a sequence of numbers that never goes down / never goes up
NonDecreasing(values) == \A i \in 1..(Len(values) - 1) : values[i] <= values[i + 1]
NonIncreasing(values) == \A i \in 1..(Len(values) - 1) : values[i] >= values[i + 1]

\* the question asks for the small end of the ranking
AsksAscending == AnyIn(Lower(question), {"least", "lowest", "fewest"})

\* the question has no wording any module reads as a request for the small end
AsksDescending == detect_sort_order(question) = "descending"

\* the ranking metric of the rows an answer lists, in the order listed
RankedMetric ==
    CASE rank_out[1].via = "query_executor" -> Column(rank_out[1].result.data, "delay_rate")
      [] rank_out[1].via = "smart_query_engine" ->
            Column(rank_out[1].result.data, "shipment_count")
      [] rank_out[1].via = "hybrid_pipeline" ->
            Column(rank_out[1].result.route_stats, "delay_rate")
      [] rank_out[1].via = "query_engine" ->
            IF rank_out[1].result.data = Nothing THEN <<>>
            ELSE [k \in 1..Len(rank_out[1].result.data[1]) |->
                     Round2Pct(rank_out[1].result.data[1][k].delayed,
                               rank_out[1].result.data[1][k].shipment_count)]

\* C14: a TOP_K / ANALYTICS answer lists its groups by the ranking metric in
\* the direction the question asks for: non-decreasing for least / lowest /
\* fewest wording, non-increasing when the question has no such wording.
C14_OrderedInRequestedDirection ==
    rank_out # Nothing =>
        /\ AsksAscending => NonDecreasing(RankedMetric)
        /\ AsksDescending => NonIncreasing(RankedMetric)
\* the largest limit the prefix property is compared against
MaxLimit == 8

IsPrefix(short, long) ==
    /\ Len(short) <= Len(long)
    /\ short = SubSeq(long, 1, Len(short))

\* C15: for a fixed table, grouping and sort direction, the ranking returned
\* for limit N is a prefix of the ranking returned for every limit M > N.
C15_LimitPrefix ==
    /\ RankedByExecutor =>
          \A M \in (rank_out[1].result.top_k + 1)..MaxLimit :
             IsPrefix(rank_out[1].result.data,
                      execute_top_k(apply_filters(self_df, rank_out[1].request.filters),
                                    Some(M), rank_out[1].request.group_by).data)
    /\ (rank_out # Nothing /\ rank_out[1].via = "smart_query_engine") =>
          \A M \in (rank_out[1].request.limit + 1)..MaxLimit :
             IsPrefix(rank_out[1].result.data,
                      execute_smart_query(self_df,
                          [rank_out[1].request EXCEPT !.limit = M]).data)

\* the executor was asked for one group of a table in which the group with the
\* highest delay rate is not the first in key order, and a larger limit
\* returns more groups
C15_Witness ==
    /\ RankedByExecutor
    /\ rank_out[1].result.top_k = 1
    /\ Len(GroupKeys(self_df, rank_out[1].result.group_by)) >= 3
    /\ rank_out[1].result.data[1].key # GroupKeys(self_df, rank_out[1].result.group_by)[1]
    /\ Len(execute_top_k(self_df, Some(3), rank_out[1].request.group_by).data) = 3

\* the smart engine was asked for two groups of at least three, and the
\* group it lists first is not the first in key order
C15_WitnessSmart ==
    /\ rank_out # Nothing /\ rank_out[1].via = "smart_query_engine"
    /\ rank_out[1].result.success
    /\ rank_out[1].request.limit = 2
    /\ rank_out[1].result.total_unique > 2
    /\ Len(rank_out[1].result.data) = 2
    /\ rank_out[1].result.data[1].key # <<"IN-DEL">>
\* the limit each fewest-orders question asks for
FewestOrdersLimit ==
    [q \in {"show me the top 3 SKUs with the fewest orders",
            "show me the 5 SKUs with fewest orders"} |->
        IF q = "show me the 5 SKUs with fewest orders" THEN 5 ELSE 3]

Min(a, b) == IF a <= b THEN a ELSE b

\* C16: a question asking for the N SKUs with the fewest orders is read as a
\* ranking grouped by SKU, ascending, with limit N, and its answer over a
\* non-empty table has min(N, number of distinct SKUs) rows in non-decreasing
\* order of order count.
C16_FewestOrdersBySku ==
    (/\ rank_out # Nothing
     /\ rank_out[1].via = "smart_query_engine"
     /\ question \in DOMAIN FewestOrdersLimit) =>
        /\ rank_out[1].request.aggregation = "sku"
        /\ rank_out[1].request.sort_order = "ascending"
        /\ rank_out[1].request.limit = FewestOrdersLimit[question]
        /\ self_df # <<>> =>
              /\ rank_out[1].result.success
              /\ Len(rank_out[1].result.data) =
                    Min(FewestOrdersLimit[question], Len(GroupKeys(self_df, <<"sku">>)))
              /\ NonDecreasing(Column(rank_out[1].result.data, "shipment_count"))
----------------------------------------------------------------------------
(* The three classifiers side by side: QueryPlanner.plan_query,              *)
(* intent_detector.detect_intent and QueryParser.parse on one question       *)

ParseQuestions == {
    "what is the delay rate of unique skus", "percentage of distinct routes",
    "how many unique skus", "how many shipments", "show total count",
    "list shipments", "top 5 routes by delay rate", "worst unique routes",
    "show the top 3 destinations", "what is the on-time rate",
    "Which SKUs are problematic?", "problematic skus", "most problematic sku",
    "are there problematic SKUs", "which routes are problematic",
    "delayed shipments to IN-MUM", "delayed shipments to US-LAX",
    "minimum quantity shipped to SG-SIN", "minimum quantity shipped to IN-DEL",
    "shipments from UK-LON", "shipments to delhi", "delayed shipments",
    "list shipments that arrived at IN-DEL", "show SHP-0000001" }

InitParse ==
    /\ question \in ParseQuestions
    /\ plan = Nothing
    /\ detected = Nothing
    /\ out = Nothing
    /\ parsed = Nothing
    /\ ExecIdle
    /\ EngineIdle
    /\ LoadIdle
    /\ LlmIdle

\* QueryParser().parse(question)
ParseQuery ==
    /\ parsed = Nothing
    /\ parsed' = Some(parse(question))
    /\ UNCHANGED <<question, plan, detected, out, execVars, engineVars, loadVars, llmVars>>

NextParse == PlanQuery \/ DetectIntent \/ ParseQuery

SpecParse == InitParse /\ [][NextParse]_vars

\* the rules of the priority order a question matches, by the words both
\* classifiers read as that rule: 1 top-K, 2 rate, 3 unique, 4 count, 5 list
RuleWords == <<{"top", "worst", "problematic", "most delays"},
               {"rate", "percentage", "%", "performance"},
               {"unique", "distinct"},
               {"how many", "count", "total"},
               {"list", "show"}>>

MatchedRules(q) == {n \in 1..Len(RuleWords) : AnyIn(Strip(Lower(q)), RuleWords[n])}

\* the names the planner and the parser give the five rules
PlannerName == <<"ANALYTICS", "METRICS", "UNIQUE_COUNT", "COUNT", "LIST">>
ParserName == <<"TOP_K", "METRICS", "UNIQUE_COUNT", "COUNT", "FILTER">>

\* the question is in the scope of the five rules: it matches one of them and
\* has neither a shipment id nor the planner's sum wording
InPriorityScope ==
    /\ MatchedRules(question) # {}
    /\ ~Contains(Lower(question), "shp-")
    /\ ~AnyIn(Lower(question), {"sum", "total units", "volume", "quantity total",
                                "total quantity"})

\* C17: the operation of a question is that of the earliest rule it matches in
\* the order top-K, rate (METRICS), unique (UNIQUE_COUNT), count (COUNT), list;
\* a question with rate wording and unique wording is METRICS.
C17_PriorityOrder ==
    InPriorityScope =>
        /\ plan # Nothing => plan[1].operation = PlannerName[MinOf(MatchedRules(question))]
        /\ parsed # Nothing => parsed[1].intent = ParserName[MinOf(MatchedRules(question))]
\* the question mentions SKUs together with 'problematic'
SkuProblematic ==
    /\ Contains(Lower(question), "sku")
    /\ Contains(Lower(question), "problematic")

\* C18: a question that mentions SKUs together with 'problematic' is classified
\* as SKU-delay analysis: detect_intent answers sku_delay_analysis, and the
\* parser answers a ranking grouped by sku.
C18_ProblematicSkuIsSkuDelay ==
    SkuProblematic =>
        /\ detected # Nothing =>
              /\ detected[1] # NoIntent
              /\ detected[1].query_type = "sku_delay_analysis"
        /\ parsed # Nothing =>
              /\ parsed[1].intent = "TOP_K"
              /\ parsed[1].group_by = <<"sku">>
\* the full location codes written in the question
FullCodesIn(q) == {loc \in LOCATIONS : Contains(Lower(q), Lower(loc))}

\* the locations a set of filters restricts the rows to
LocationValues(filters) ==
    {filters[k] : k \in DOMAIN filters \cap {"source_location", "destination_location"}}

\* the question holds one full code, and an alias of another location inside
\* some other word
AliasInsideWord ==
    /\ Cardinality(FullCodesIn(question)) = 1
    /\ \E k \in 1..Len(LOCATION_ALIASES) :
          /\ Contains(Lower(question), LOCATION_ALIASES[k][1])
          /\ LOCATION_ALIASES[k][2] \notin FullCodesIn(question)

\* C19: when the question holds a full valid location code, the location it
\* resolves to is that code, also when an alias such as 'del' or 'mum' occurs
\* in the question inside another word like 'delayed' or 'minimum'.
C19_FullCodeBeforeAlias ==
    Cardinality(FullCodesIn(question)) = 1 =>
        /\ plan # Nothing => LocationValues(plan[1].filters) \subseteq FullCodesIn(question)
        /\ parsed # Nothing => LocationValues(parsed[1].filters) \subseteq FullCodesIn(question)
        /\ (parsed # Nothing /\ parsed[1].intent \notin {"METRICS", "TOP_K"}) =>
              LocationValues(parsed[1].filters) = FullCodesIn(question)
----------------------------------------------------------------------------
(* backend/copilot_backend.py : the sessions dictionary and the endpoints    *)
(* that read and write it.  The endpoints are coroutines without an await,   *)
(* so each request runs from start to end before the next one starts.        *)

\* the most sessions and the most messages of a session the model follows
MaxSessions == 2
MaxMessages == 4

\* the values uuid.uuid4() returns
UuidPool == {"uuid-a", "uuid-b", "uuid-c", "uuid-d"}

\* the session ids a client can send besides the ids it was given
ForeignIds == {None, "", "made-up-id"}

SessionQueries == {"which destination has less shipment"}

\* ChatRequest
ChatRequests == [query : SessionQueries, session_id : ForeignIds \cup UuidPool]

\* ConversationSession.__init__
ConversationSession(session_id) ==
    [session_id |-> session_id, messages |-> <<>>, context |-> <<>>]

\* ConversationSession.get_history
get_history(session, limit) ==
    SubSeq(session.messages,
           IF Len(session.messages) > limit THEN Len(session.messages) - limit + 1 ELSE 1,
           Len(session.messages))

\* a plausible slip: a known id is answered with whichever session is at hand
get_or_create_session_any(all_sessions, session_id, uuid) ==
    IF session_id \in {None, ""} \/ session_id \notin DOMAIN all_sessions
    THEN <<uuid, all_sessions @@ (uuid :> ConversationSession(uuid))>>
    ELSE <<CHOOSE t \in DOMAIN all_sessions : TRUE, all_sessions>>

\* get_or_create_session: the id of the session served and the dictionary
\* after the call; uuid is the value uuid4() returns when it is called
get_or_create_session(all_sessions, session_id, uuid) ==
    IF session_id \in {None, ""} \/ session_id \notin DOMAIN all_sessions
    THEN <<uuid, all_sessions @@ (uuid :> ConversationSession(uuid))>>
    ELSE <<session_id, all_sessions>>

\* session.add_message(role, content) on the session with the id served
SessionAdd(all_sessions, served, role, content) ==
    [all_sessions EXCEPT ![served].messages = add_message(@, role, content)]

\* format_for_response: the marker, the summary and the numbered lines
format_for_response(query_result) ==
    IF ~query_result.success
    THEN [mark |-> "failed", summary |-> query_result.summary, lines |-> <<>>]
    ELSE IF query_result.data = <<>>
    THEN [mark |-> "No results found", summary |-> query_result.summary, lines |-> <<>>]
    ELSE [mark |-> "ranked", summary |-> query_result.summary,
          lines |-> [i \in 1..Len(query_result.data) |->
                        IF query_result.aggregation = "status"
                        THEN <<i, query_result.data[i].key,
                               query_result.data[i].shipment_count>>
                        ELSE <<i, query_result.data[i].key,
                               query_result.data[i].shipment_count,
                               query_result.data[i].total_quantity>>]]

\* what the calls inside /chat do: load_csv raises, returns an empty frame or
\* returns the table; generate_response raises or returns a text
ChatOutcomes == {"load raises", "empty frame", "generate raises", "answered"}

\* POST /chat: the dictionary after the request and the response body.
\* fresh holds the values of the uuid4() calls the request can make.
chat(all_sessions, request, outcome, fresh) ==
    CASE outcome = "empty frame" ->
            <<all_sessions,
              [response |-> "Supply chain data not available",
               session_id |-> IF Truthy(request.session_id) THEN request.session_id
                              ELSE "error",
               error |-> "No data"]>>
      [] outcome = "load raises" ->
            LET got == get_or_create_session(all_sessions, request.session_id, fresh[1])
            IN <<got[2], [response |-> "Error", session_id |-> got[1],
                          query_type |-> "error"]>>
      [] outcome = "generate raises" ->
            LET got == get_or_create_session(all_sessions, request.session_id, fresh[1])
                again == get_or_create_session(got[2], request.session_id, fresh[2])
            IN <<again[2], [response |-> "Error", session_id |-> again[1],
                            query_type |-> "error"]>>
      [] OTHER ->
            LET got == get_or_create_session(all_sessions, request.session_id, fresh[1])
                response_text == <<"answer to {}", request.query>>
                stored == SessionAdd(SessionAdd(got[2], got[1], "user", request.query),
                                     got[1], "assistant", response_text)
            IN <<stored, [response |-> response_text, session_id |-> got[1],
                          message_count |-> Len(stored[got[1]].messages)]>>

\* what the calls inside /chat/smart do after the user's message is stored:
\* one of them raises (format_for_response joining a list of locations that
\* holds a missing value), or all return
SmartOutcomes == {"processing raises", "answered"}

\* POST /chat/smart over the table load_data returns.  smart_parse_intent and
\* execute_smart_query are called once each; their values are bound before
\* the steps that read them.
chat_smart(all_sessions, request, table, outcome, fresh) ==
    LET got == get_or_create_session(all_sessions, request.session_id, fresh[1])
        asked == SessionAdd(got[2], got[1], "user", request.query)
        again == get_or_create_session(asked, request.session_id, fresh[2])
        answer(intent, query_result) ==
            LET response_text == format_for_response(query_result)
                stored == SessionAdd(asked, got[1], "assistant", response_text)
            IN <<stored, [response |-> response_text, session_id |-> got[1],
                          message_count |-> Len(stored[got[1]].messages),
                          intent |-> [aggregation |-> intent.aggregation,
                                      sort_order |-> intent.sort_order,
                                      limit |-> intent.limit]]>>
        answers == UNION {{answer(intent, query_result) :
                              query_result \in {execute_smart_query(table, intent)}} :
                                 intent \in {smart_parse_intent(request.query)}}
    IN IF outcome = "processing raises"
       THEN <<again[2], [response |-> "Error", session_id |-> again[1], smart_query |-> TRUE]>>
       ELSE CHOOSE one \in answers : TRUE

\* GET /session/{session_id}
get_session(all_sessions, session_id) ==
    IF session_id \notin DOMAIN all_sessions
    THEN [status_code |-> 404]
    ELSE [session_id |-> all_sessions[session_id].session_id,
          message_count |-> Len(all_sessions[session_id].messages),
          messages |-> get_history(all_sessions[session_id], 50),
          context |-> all_sessions[session_id].context]

\* DELETE /session/{session_id}
delete_session(all_sessions, session_id) ==
    IF session_id \notin DOMAIN all_sessions
    THEN <<all_sessions, [status_code |-> 404]>>
    ELSE LET rest == [t \in DOMAIN all_sessions \ {session_id} |-> all_sessions[t]]
         IN <<rest, [remaining_sessions |-> Cardinality(DOMAIN rest)]>>

\* the values of uuid4() in some fixed order
UuidOrder == <<"uuid-a", "uuid-b", "uuid-c", "uuid-d">>

\* the two values the next uuid4() calls return: distinct, and not the id of
\* a live session.  No handler looks inside an id, so which unused values
\* they are makes no difference; the first two unused ones are taken.
FreshPairs ==
    LET unused == SelectSeq(UuidOrder, LAMBDA u : u \notin DOMAIN sessions)
    IN IF Len(unused) < 2 THEN {} ELSE {<<unused[1], unused[2]>>}

\* the dictionary stays within the sessions and messages the model follows
WithinBounds(all_sessions) ==
    /\ Cardinality(DOMAIN all_sessions) <= MaxSessions
    /\ \A t \in DOMAIN all_sessions : Len(all_sessions[t].messages) <= MaxMessages

InitSessions ==
    /\ sessions = <<>>
    /\ chat_reply = Nothing
    /\ config_manager = <<>>
    /\ session_messages = <<>>
    /\ insight = Nothing
    /\ ClassIdle
    /\ ExecIdle
    /\ EngineIdle
    /\ LoadIdle

sessionFrame == <<config_manager, session_messages, insight, classVars, execVars, engineVars,
                  loadVars>>

Chat ==
    \E request \in ChatRequests, outcome \in ChatOutcomes, fresh \in FreshPairs :
       LET got == chat(sessions, request, outcome, fresh)
       IN /\ WithinBounds(got[1])
          /\ sessions' = got[1]
          /\ chat_reply' = Some([endpoint |-> "/chat", session_id |-> request.session_id,
                                 outcome |-> outcome, body |-> got[2]])
          /\ UNCHANGED sessionFrame

ChatSmart ==
    \E request \in ChatRequests, outcome \in SmartOutcomes, fresh \in FreshPairs :
       LET got == chat_smart(sessions, request, Fixture, outcome, fresh)
       IN /\ WithinBounds(got[1])
          /\ sessions' = got[1]
          /\ chat_reply' = Some([endpoint |-> "/chat/smart",
                                 session_id |-> request.session_id,
                                 outcome |-> outcome, body |-> got[2]])
          /\ UNCHANGED sessionFrame

\* POST /session/new
CreateNewSession ==
    \E fresh \in FreshPairs :
       LET got == get_or_create_session(sessions, None, fresh[1])
       IN /\ WithinBounds(got[2])
          /\ sessions' = got[2]
          /\ chat_reply' = Some([endpoint |-> "/session/new", session_id |-> None,
                                 outcome |-> "answered",
                                 body |-> [session_id |-> got[1]]])
          /\ UNCHANGED sessionFrame

GetSession ==
    \E session_id \in UuidPool \cup {"made-up-id"} :
       /\ chat_reply' = Some([endpoint |-> "GET /session", session_id |-> session_id,
                              outcome |-> "answered",
                              body |-> get_session(sessions, session_id)])
       /\ UNCHANGED <<sessions, sessionFrame>>

DeleteSession ==
    \E session_id \in UuidPool \cup {"made-up-id"} :
       LET got == delete_session(sessions, session_id)
       IN /\ sessions' = got[1]
          /\ chat_reply' = Some([endpoint |-> "DELETE /session", session_id |-> session_id,
                                 outcome |-> "answered", body |-> got[2]])
          /\ UNCHANGED sessionFrame

NextSessions == Chat \/ ChatSmart \/ CreateNewSession \/ GetSession \/ DeleteSession

SpecSessions == InitSessions /\ [][NextSessions]_vars
----------------------------------------------------------------------------
(* Session properties *)

\* the step serves a /chat or /chat/smart request that carries the id of a
\* session that exists when the request arrives
ServesKnownSession ==
    /\ chat_reply' # Nothing
    /\ chat_reply'[1].endpoint \in {"/chat", "/chat/smart"}
    /\ chat_reply'[1].session_id \in DOMAIN sessions

\* C20: a request that carries the id of an existing session reads and appends
\* only to that session's messages and context; the messages and the context of
\* every other session are unchanged, and no session appears or disappears.
C20_SessionsIndependent ==
    [][ServesKnownSession =>
          LET served == chat_reply'[1].session_id
          IN /\ DOMAIN sessions' = DOMAIN sessions
             /\ \A other \in DOMAIN sessions \ {served} : sessions'[other] = sessions[other]
             /\ IsPrefix(sessions[served].messages, sessions'[served].messages)
             /\ sessions'[served].context = sessions[served].context
             /\ chat_reply'[1].body.session_id = served
             /\ "message_count" \in DOMAIN chat_reply'[1].body =>
                   /\ chat_reply'[1].body.message_count = Len(sessions[served].messages) + 2
                   /\ chat_reply'[1].body.message_count = Len(sessions'[served].messages)]_vars

\* a request has been answered in a session that already held an exchange,
\* while another session holds an exchange of its own
C20_Witness ==
    /\ chat_reply # Nothing
    /\ chat_reply[1].endpoint \in {"/chat", "/chat/smart"}
    /\ chat_reply[1].outcome = "answered"
    /\ chat_reply[1].session_id \in DOMAIN sessions
    /\ Len(sessions[chat_reply[1].session_id].messages) = 4
    /\ \E other \in DOMAIN sessions \ {chat_reply[1].session_id} :
          Len(sessions[other].messages) = 2
----------------------------------------------------------------------------
(* Validation of the pipeline's results *)

\* the result _execute_query_plan computes for the question's plan
PlannedResult == execute_query_plan(Fixture, plan_query(question))

\* the checks of the validation step, each on its own
CountIsZero(result_data) == result_data.count = 0
OperationMismatch(query_plan, result_data) ==
    query_plan.operation # Get(result_data, "operation")
MoreRecordsThanCount(result_data) ==
    /\ "records" \in DOMAIN result_data
    /\ Len(result_data.records) > result_data.count

\* C21: every response of execute other than 'No data found.' comes from a
\* result whose operation is the planned one and whose record list is no
\* longer than its count; a result with a mismatched operation, with more
\* records than its count or with count 0 is answered 'No data found.' with 0
\* records.
C21_ResponsesAreValidated ==
    (out # Nothing /\ ~out[1].raised) =>
        /\ out[1].response.text # NoDataText =>
              /\ out[1].executed
              /\ ~OperationMismatch(plan_query(question), PlannedResult)
              /\ ~MoreRecordsThanCount(PlannedResult)
              /\ ~CountIsZero(PlannedResult)
              /\ out[1].operation = PlannedResult.operation
              /\ out[1].records = PlannedResult.count
        /\ (/\ out[1].executed
            /\ \/ CountIsZero(PlannedResult)
               \/ OperationMismatch(plan_query(question), PlannedResult)
               \/ MoreRecordsThanCount(PlannedResult)) =>
              /\ out[1].response.text = NoDataText
              /\ out[1].records = 0

\* the query ran on the table, matched no row, and was answered 'No data found.'
C21_Witness ==
    /\ out # Nothing /\ ~out[1].raised
    /\ out[1].executed
    /\ CountIsZero(PlannedResult)
    /\ out[1].response.text = NoDataText

\* the query ran, matched rows, and was answered from them
C21_WitnessAnswered ==
    /\ out # Nothing /\ ~out[1].raised
    /\ out[1].response.text # NoDataText
    /\ out[1].records > 0
    /\ Len(PlannedResult.records) > 0
----------------------------------------------------------------------------
(* Enrichment: delay and risk *)

\* the days a shipment of the enrichment study is expected, and the days it
\* may have arrived (NaT: not arrived): early, on the day, and late by less
\* than 5, by 5 to 9 and by 10 days or more
EnrichExpected == {6, 9, 10}
EnrichArrived == {NaT, 5, 6, 9, 10, 13, 15, 16, 19, 21}

\* raw rows as the file has them: expected_arrival always present, a status
\* that agrees with the presence of arrived_at
EnrichRows ==
    { [shipment_id |-> "SHP-0000009", source_location |-> "IN-DEL",
       destination_location |-> "US-LAX", departed_at |-> 1, expected_arrival |-> expected,
       arrived_at |-> arrived, status |-> status, sku |-> "SKU-0001", quantity |-> 5] :
        <<expected, arrived, status>> \in
            { triple \in EnrichExpected \X EnrichArrived \X {"ARRIVED", "DELIVERED", "IN_TRANSIT"} :
                (triple[2] = NaT) <=> (triple[3] = "IN_TRANSIT") } }

InitEnrich ==
    /\ shipment_row \in {Some(raw) : raw \in EnrichRows}
    /\ shipment_summary = Nothing
    /\ risk_rendered = Nothing
    /\ now = FirstDay
    /\ csv_data = Nothing
    /\ first_details = Nothing
    /\ engine_out = Nothing
    /\ ClassIdle
    /\ ExecIdle
    /\ LoadIdle
    /\ LlmIdle

\* enrich_shipment(row), at the current time
EnrichShipment ==
    /\ shipment_summary' = Some([at |-> now, enriched |-> enrich_shipment(shipment_row[1], now)])
    /\ UNCHANGED <<shipment_row, risk_rendered, csv_data, now, first_details, engine_out,
                   classVars, execVars, loadVars, llmVars>>

\* llm_context._get_risk_level; the score in hundredths
get_risk_level(risk_score) ==
    IF risk_score >= 70 THEN "HIGH" ELSE IF risk_score >= 40 THEN "MEDIUM" ELSE "LOW"

\* data_enrichment._risk_level_label, without its trailing symbol
risk_level_label(risk_score) ==
    IF risk_score >= 70 THEN "HIGH RISK"
    ELSE IF risk_score >= 40 THEN "MEDIUM RISK" ELSE "LOW RISK"

\* the risk level of the enriched shipment in each text made for it:
\* build_shipment_context (llm_context.py), build_llm_context
\* (data_enrichment.py) and generate_expert_fallback_from_query
RenderRisk ==
    /\ shipment_summary # Nothing
    /\ risk_rendered' =
          Some([risk_score |-> shipment_summary[1].enriched.risk_score,
                shipment_context |-> get_risk_level(shipment_summary[1].enriched.risk_score),
                llm_context |-> risk_level_label(shipment_summary[1].enriched.risk_score),
                fallback |-> FallbackRiskLevel(shipment_summary[1].enriched.risk_score)])
    /\ UNCHANGED <<shipment_row, shipment_summary, csv_data, now, first_details, engine_out,
                   classVars, execVars, loadVars, llmVars>>

NextEnrich == EnrichShipment \/ RenderRisk \/ Tick

SpecEnrich == InitEnrich /\ [][NextEnrich]_vars

\* the latest enrichment and the row and time it was made from
Enriched == shipment_summary[1].enriched
EnrichedAt == shipment_summary[1].at
NotArrived == shipment_row[1].arrived_at = NaT

\* the additive table, in hundredths: the weight of a shipment still on its
\* way, and the weight of the delay it already has
TableWaiting(raw, at) ==
    IF raw.arrived_at # NaT THEN 0
    ELSE IF raw.expected_arrival < at THEN 70 ELSE 20

TableDelayBand(delay) ==
    IF delay >= 10 THEN 50 ELSE IF delay >= 5 THEN 30 ELSE IF delay > 0 THEN 10 ELSE 0

C23_WitnessOverdue ==
    /\ shipment_summary # Nothing
    /\ NotArrived
    /\ shipment_row[1].expected_arrival < EnrichedAt
    /\ Enriched.risk_score = 70

\* the latest call is a get_shipment_details call that found its shipment
DetailsFound ==
    /\ engine_out # Nothing
    /\ engine_out[1].result.query_type = "shipment_details"
    /\ engine_out[1].result.data # Nothing

\* the row of the file the latest get_shipment_details call was about
DetailsRow ==
    SelectSeq(Fixture, LAMBDA row : Upper(Strip(row.shipment_id))
                                        = Upper(Strip(engine_out[1].id)))[1]

\* the enriched record the latest get_shipment_details call returned
DetailsRecord == engine_out[1].result.data[1][1]

\* C22: delay_days is max(0, days from expected_arrival to arrived_at) for an
\* arrived shipment; for a shipment in transit whose expected_arrival is past
\* it is the delay against the current time, and 0 or none while the shipment
\* is not yet due; it is never negative.
C22_DelayDays ==
    DetailsFound =>
        LET expected == DetailsRow.expected_arrival
            arrived == DetailsRow.arrived_at
            at == engine_out[1].at
            delay_days == DetailsRecord.delay_days
        IN /\ delay_days # Nothing => delay_days[1] >= 0
           /\ (arrived # NaT /\ expected # NaT) =>
                  delay_days = Some(IF arrived - expected > 0 THEN arrived - expected ELSE 0)
           /\ (arrived = NaT /\ expected # NaT /\ expected < at) =>
                  delay_days = Some(at - expected)
           /\ (arrived = NaT /\ expected # NaT /\ expected >= at) =>
                  delay_days \in {Nothing, Some(0)}
----------------------------------------------------------------------------
(* Limit and sort direction of a ranking question *)

\* the limit the latest ranking call extracted from the question, as an
\* optional: QueryParser's top_k, QueryPlanner's limit, smart_parse_intent's limit
ExtractedLimit ==
    CASE rank_out[1].via = "query_executor" -> rank_out[1].request.top_k
      [] rank_out[1].via = "hybrid_pipeline" -> rank_out[1].request.limit
      [] rank_out[1].via = "smart_query_engine" -> Some(rank_out[1].request.limit)

\* the value of the integer token starting at position i
NumberValue(t, i) == ParseInt(SubSeq(t, i, RunEnd(t, i, Digits)), 0)

\* the first integer token with a value in 1..100, and 10 without one
FirstLimitInRange(t) ==
    LET hits == {i \in 1..Len(t) : NumberAt(t, i) /\ NumberValue(t, i) \in 1..100}
    IN IF hits = {} THEN 10 ELSE NumberValue(t, MinOf(hits))

\* C24: limit extraction returns the first integer token of the question with
\* a value in [1,100], and 10 when the question has none; the extracted limit
\* is always an integer in [1,100].
C24_LimitInRange ==
    (rank_out # Nothing /\ rank_out[1].via # "query_engine") =>
        /\ ExtractedLimit # Nothing
        /\ ExtractedLimit[1] \in 1..100
        /\ ExtractedLimit[1] = FirstLimitInRange(question)

\* the words that ask for the ascending direction
AscendingWords == {"least", "lowest", "fewest", "minimum", "worst", "bottom", "slowest"}

\* C25: the sort direction is ascending exactly when the question contains
\* one of least, lowest, fewest, minimum, worst, bottom, slowest, and
\* descending for every other question, whatever dimension was classified.
C25_AscendingWords ==
    (rank_out # Nothing /\ rank_out[1].via = "smart_query_engine") =>
        /\ rank_out[1].request.sort_order \in {"ascending", "descending"}
        /\ rank_out[1].request.sort_order = "ascending"
              <=> AnyIn(Lower(question), AscendingWords)
----------------------------------------------------------------------------
(* The side a single location filters on *)

\* str.endswith
EndsWith(t, tail) ==
    /\ Len(tail) <= Len(t)
    /\ SubSeq(t, Len(t) - Len(tail) + 1, Len(t)) = tail

\* the question names the one location `code`, after the word kw
NamesOnlyAfter(kw, code) ==
    /\ EndsWith(Lower(question), kw \o " " \o Lower(code))
    /\ FullCodesIn(question) = {code}
    /\ kw = "to" => ~Contains(Lower(question), "from ")

\* C26: when the question names exactly one valid location, the plan filters
\* on one side only: after 'to' on destination_location with no
\* source_location, after 'from' on source_location with no
\* destination_location.
C26_OneSideOnly ==
    plan # Nothing =>
        \A code \in valid_locations :
            /\ NamesOnlyAfter("to", code) =>
                  /\ Get(plan[1].filters, "destination_location") = code
                  /\ "source_location" \notin DOMAIN plan[1].filters
            /\ NamesOnlyAfter("from", code) =>
                  /\ Get(plan[1].filters, "source_location") = code
                  /\ "destination_location" \notin DOMAIN plan[1].filters

\* the half of the statement about 'to'
ToFiltersDestinationOnly ==
    plan # Nothing =>
        \A code \in valid_locations :
            NamesOnlyAfter("to", code) =>
                /\ Get(plan[1].filters, "destination_location") = code
                /\ "source_location" \notin DOMAIN plan[1].filters
----------------------------------------------------------------------------
(* Sessions of failing requests *)

\* the step serves a /chat or /chat/smart request
ServesChat ==
    /\ chat_reply' # Nothing
    /\ chat_reply'[1].endpoint \in {"/chat", "/chat/smart"}

\* the step serves a /chat or /chat/smart request that gets or creates a session
ServesChatWithSession ==
    /\ ServesChat
    /\ chat_reply'[1].outcome # "empty frame"

\* C27: a /chat or /chat/smart request adds at most one entry to the session
\* store, and the session_id of the response is the id of the session used for
\* the request, also when the request has no session_id and processing fails.
C27_OneSessionPerRequest ==
    [][ServesChatWithSession =>
          LET added == DOMAIN sessions' \ DOMAIN sessions
          IN /\ Cardinality(added) <= 1
             /\ added # {} => chat_reply'[1].body.session_id \in added
             /\ added = {} => chat_reply'[1].body.session_id = chat_reply'[1].session_id]_vars

\* the messages are (user, assistant) pairs, one after the other
PairedMessages(messages) ==
    /\ Len(messages) % 2 = 0
    /\ \A i \in 1..Len(messages) :
          messages[i].role = IF i % 2 = 1 THEN "user" ELSE "assistant"

\* C28: after every completed /chat or /chat/smart request each session's
\* history consists of consecutive (user, assistant) pairs; no user message
\* is left without its reply, also when processing of the request fails.
C28_MessagesPaired ==
    \A t \in DOMAIN sessions : PairedMessages(sessions[t].messages)

\* the half of the statement about /chat: its requests leave every history
\* that was paired, paired
ChatKeepsPairs ==
    [][(ServesChat /\ chat_reply'[1].endpoint = "/chat"
          /\ \A t \in DOMAIN sessions : PairedMessages(sessions[t].messages))
        => \A t \in DOMAIN sessions' : PairedMessages(sessions'[t].messages)]_vars
----------------------------------------------------------------------------
(* get_delayed_shipments over tables with several late shipments *)

InitDelayed ==
    /\ self_df \in RankTables
    /\ the_filters = <<>>
    /\ count_out = Nothing /\ filter_out = Nothing /\ metrics_out = Nothing
    /\ pipe_out = Nothing /\ details_out = Nothing /\ rank_out = Nothing
    /\ csv_data = Nothing
    /\ now = FirstDay
    /\ first_details = Nothing
    /\ engine_out = Nothing
    /\ shipment_row = Nothing
    /\ shipment_summary = Nothing
    /\ risk_rendered = Nothing
    /\ ClassIdle
    /\ LoadIdle
    /\ LlmIdle

\* get_delayed_shipments(limit) in a process whose shipment file is self_df
DelayedShipments ==
    \E limit \in Limits :
       LET run == get_delayed_shipments(csv_data, self_df, limit)
       IN /\ csv_data' = Some(run[1])
          /\ engine_out' = Some([id |-> "", at |-> now, limit |-> limit,
                                 as_loaded |-> run[1] = read_csv(self_df), result |-> run[2]])
          /\ UNCHANGED <<now, first_details, shipment_row, shipment_summary, risk_rendered,
                         classVars, execVars, loadVars, llmVars>>

NextDelayed == DelayedShipments

SpecDelayed == InitDelayed /\ [][NextDelayed]_vars

\* the arrived shipments of the file that came after their expected arrival
ArrivedLate(rows) ==
    SelectSeq(rows, LAMBDA r : r.status = "ARRIVED" /\ r.arrived_at # NaT
                                  /\ r.arrived_at - r.expected_arrival > 0)

\* C29: get_delayed_shipments reports as total_delayed, and in its summary,
\* the number of all arrived shipments with a positive delay, whatever the
\* limit; only the data list is cut to limit rows.
C29_TotalDelayedIgnoresLimit ==
    (engine_out # Nothing /\ "limit" \in DOMAIN engine_out[1]
        /\ engine_out[1].result.result # Nothing) =>
        LET late == Len(ArrivedLate(self_df))
        IN /\ engine_out[1].result.result[1].total_delayed = late
           /\ engine_out[1].result.summary = Text("Found {} delayed shipments", <<late>>)
           /\ Len(engine_out[1].result.data[1])
                 = IF late < engine_out[1].limit THEN late ELSE engine_out[1].limit

\* the half of the statement about the data list
DelayedDataCutToLimit ==
    (engine_out # Nothing /\ "limit" \in DOMAIN engine_out[1]
        /\ engine_out[1].result.result # Nothing) =>
        LET late == Len(ArrivedLate(self_df))
        IN Len(engine_out[1].result.data[1])
              = IF late < engine_out[1].limit THEN late ELSE engine_out[1].limit
----------------------------------------------------------------------------
(* The risk level across the rendering paths *)

\* C30: a risk_score maps to the same risk level - HIGH, MEDIUM or LOW - in
\* every rendering path, the context builders and the fallback formatter, for
\* every score the scoring table can produce, the boundary 0.7 included.
C30_SameRiskLevel ==
    risk_rendered # Nothing =>
        /\ risk_rendered[1].shipment_context \in {"HIGH", "MEDIUM", "LOW"}
        /\ risk_rendered[1].llm_context = risk_rendered[1].shipment_context \o " RISK"
        /\ risk_rendered[1].fallback = risk_rendered[1].shipment_context

\* the half of the statement about the two context builders
ContextBuildersAgree ==
    risk_rendered # Nothing =>
        risk_rendered[1].llm_context = risk_rendered[1].shipment_context \o " RISK"

====
